---- MODULE Spec2Model ----
(***************************************************************************)
(* Client-side cart coordination layer of the ShopProject storefront:      *)
(* the Cart / CartItem domain entities, the expiring localStorage wrapper  *)
(* and the publish/subscribe event bus.                                    *)
(*                                                                         *)
(* Each component has its own specification (SpecCart, SpecCartItem,       *)
(* SpecStorage, SpecBus); a specification leaves the variables of the      *)
(* other components unchanged.                                             *)
(***************************************************************************)
EXTENDS Integers, Sequences, FiniteSets, TLC

VARIABLES
  cart,        \* the Cart instance: id, sessionId, items, total, itemCount
  cartPrev,    \* the same Cart before the last call
  cartCall,    \* the last call made on the Cart (name and arguments)
  medium,      \* window.localStorage: full key -> stored text
  mediumPrev,  \* the medium before the last Storage call
  mediumMode,  \* the condition of the medium
  now,         \* Date.now()
  storageState,\* "unloaded", "ready" (constructed) or "failed" (constructor threw)
  stCall,      \* the last Storage call: name, arguments and outcome
  events,      \* EventBus.events: event name -> listeners in insertion order
  stack,       \* the publish calls in progress, the innermost last
  unsubFns,    \* the functions returned by subscribe: (event, callback) -> state
  busCall,     \* the last call of subscribe or of a returned function
  once,        \* the registration made by EventBus.once and its invocations
  generated,   \* the number of session tokens generated so far
  issued,      \* the token generated last and when
  sessCall,    \* the last call that asked for the session token
  clients,     \* this.sessionId of the CartController and of the CartHandler
  inflight,    \* the remote calls awaiting their response, oldest first
  last,        \* the last step of a use case or handler: a call rejected,
               \* a request sent, or a call finished
  api,         \* the call of ApiClient.request in progress and its outcome
  server,      \* the cart the remote service holds for the session
  page         \* the cart page: this.cart of the CartController, the count
               \* published last, what has happened on the page

cartVars == <<cart, cartPrev, cartCall>>
storageVars == <<medium, mediumPrev, mediumMode, now, storageState, stCall>>
busVars == <<events, stack>>
handleVars == <<unsubFns, busCall>>
sessionVars == <<generated, issued, sessCall>>
syncVars == <<clients, inflight, last>>
pageVars == <<api, server, page>>
extVars == <<handleVars, once, sessionVars, syncVars, pageVars>>
vars == <<cartVars, storageVars, busVars, extVars>>

(***************************************************************************)
(* Bounds of the cart model.                                               *)
(***************************************************************************)
MaxAdd == 2      \* addItem quantities are drawn from 1..MaxAdd
MaxQty == 3      \* an item's quantity is kept within 1..MaxQty
MaxPrice == 2    \* unit prices are drawn from 1..MaxPrice

Products == {"p1", "p2"}
TempIds == {"temp_1", "temp_2"}
\* The currency a product is sold in; "" stands for a missing currency
CurrencyOf == [p \in Products |-> IF p = "p1" THEN "" ELSE "EUR"]

(***************************************************************************)
(* JavaScript conversions used by the constructors.                        *)
(***************************************************************************)
\* Number(x) || 0 on a numeric x: a falsy number becomes 0.
NumberOrZero(x) == IF x = 0 THEN 0 ELSE x

\* data.currency || 'USD'
CurrencyOrDefault(c) == IF c = "" THEN "USD" ELSE c

(***************************************************************************)
(* CartItem                                                                *)
(***************************************************************************)
CartItemCtorRecomputing(data) ==
  [id |-> data.id,
   productId |-> data.product_id,
   quantity |-> data.quantity,
   priceAtAdd |-> data.price_at_add,
   currency |-> CurrencyOrDefault(data.currency),
   subtotal |-> data.price_at_add * data.quantity]

\* new CartItem(data)
CartItemCtor(data) ==
  [id |-> data.id,
   productId |-> data.product_id,
   quantity |-> data.quantity,
   priceAtAdd |-> data.price_at_add,
   currency |-> CurrencyOrDefault(data.currency),
   subtotal |-> NumberOrZero(data.subtotal)]

\* CartItem.toJSON
CartItemToJSON(item) ==
  [id |-> item.id,
   product_id |-> item.productId,
   quantity |-> item.quantity,
   price_at_add |-> item.priceAtAdd,
   currency |-> item.currency,
   subtotal |-> item.subtotal]

\* CartItem.updateQuantity: sets the quantity and recomputes the subtotal
\* (calculateSubtotal).
CartItemUpdateQuantity(item, quantity) ==
  [item EXCEPT !.quantity = quantity,
               !.subtotal = item.priceAtAdd * quantity]

(***************************************************************************)
(* CartCalculatorService                                                   *)
(***************************************************************************)
RECURSIVE calculateTotal(_)
calculateTotal(items) ==
  IF items = <<>> THEN 0
  ELSE calculateTotal(SubSeq(items, 1, Len(items) - 1))
         + items[Len(items)].priceAtAdd * items[Len(items)].quantity

RECURSIVE calculateItemCount(_)
calculateItemCount(items) ==
  IF items = <<>> THEN 0
  ELSE calculateItemCount(SubSeq(items, 1, Len(items) - 1))
         + items[Len(items)].quantity

(***************************************************************************)
(* Cart                                                                    *)
(***************************************************************************)
\* new Cart(data) / Cart.fromAPI(data)
CartCtor(data) ==
  [id |-> data.id,
   sessionId |-> data.session_id,
   items |-> [i \in 1..Len(data.items) |-> CartItemCtor(data.items[i])],
   total |-> NumberOrZero(data.total),
   itemCount |-> NumberOrZero(data.item_count)]

fromAPI(data) == CartCtor(data)

\* Cart.toJSON
toJSON(c) ==
  [id |-> c.id,
   session_id |-> c.sessionId,
   items |-> [i \in 1..Len(c.items) |-> CartItemToJSON(c.items[i])],
   total |-> c.total,
   item_count |-> c.itemCount]

\* Cart.recalculate
recalculate(c) ==
  [c EXCEPT !.total = calculateTotal(c.items),
            !.itemCount = calculateItemCount(c.items)]

\* items.find(pred): index of the first match, 0 when there is none
FindByProductId(items, productId) ==
  IF \E i \in 1..Len(items) : items[i].productId = productId
  THEN CHOOSE i \in 1..Len(items) :
         /\ items[i].productId = productId
         /\ \A j \in 1..(i - 1) : items[j].productId # productId
  ELSE 0

FindById(items, itemId) ==
  IF \E i \in 1..Len(items) : items[i].id = itemId
  THEN CHOOSE i \in 1..Len(items) :
         /\ items[i].id = itemId
         /\ \A j \in 1..(i - 1) : items[j].id # itemId
  ELSE 0

addItemAlwaysAppends(c, productId, quantity, price, currency, tempId) ==
  recalculate([c EXCEPT !.items = Append(c.items, CartItemCtor(
       [id |-> tempId, product_id |-> productId, quantity |-> quantity,
        price_at_add |-> price, currency |-> currency,
        subtotal |-> price * quantity]))])

\* Cart.addItem; tempId is the value generateTempId returns
addItem(c, productId, quantity, price, currency, tempId) ==
  LET k == FindByProductId(c.items, productId) IN
  recalculate(
    IF k # 0
    THEN [c EXCEPT !.items[k].quantity = c.items[k].quantity + quantity]
    ELSE [c EXCEPT !.items = Append(c.items, CartItemCtor(
            [id |-> tempId, product_id |-> productId, quantity |-> quantity,
             price_at_add |-> price, currency |-> currency,
             subtotal |-> price * quantity]))])

\* Cart.removeItem
removeItem(c, itemId) ==
  recalculate([c EXCEPT !.items = SelectSeq(c.items, LAMBDA it : it.id # itemId)])

updateItemQuantityStrict(c, itemId, quantity) ==
  LET k == FindById(c.items, itemId) IN
  IF k # 0
  THEN IF quantity < 0
       THEN removeItem(c, itemId)
       ELSE recalculate([c EXCEPT !.items[k].quantity = quantity])
  ELSE c

\* Cart.updateItemQuantity
updateItemQuantity(c, itemId, quantity) ==
  LET k == FindById(c.items, itemId) IN
  IF k # 0
  THEN IF quantity <= 0
       THEN removeItem(c, itemId)
       ELSE recalculate([c EXCEPT !.items[k].quantity = quantity])
  ELSE c

clearKeepsTotals(c) == [c EXCEPT !.items = <<>>]

\* Cart.clear
clear(c) == recalculate([c EXCEPT !.items = <<>>])

(***************************************************************************)
(* The calls made on one Cart instance.                                    *)
(***************************************************************************)
NoArg == "-"

Call(op, productId, itemId, quantity, price, currency) ==
  [op |-> op, productId |-> productId, itemId |-> itemId,
   quantity |-> quantity, price |-> price, currency |-> currency]

ItemIds(c) == {c.items[i].id : i \in 1..Len(c.items)}

\* generateTempId: 'temp_' + Date.now() + '_' + random suffix, an id no item
\* of the cart carries
FreshTempIds(c) == TempIds \ ItemIds(c)

CartInit ==
  /\ cart = CartCtor([id |-> "cart_1", session_id |-> "session_1",
                      items |-> <<>>, total |-> 0, item_count |-> 0])
  /\ cartPrev = cart
  /\ cartCall = Call("new", NoArg, NoArg, 0, 0, NoArg)

AddItem ==
  \E productId \in Products, quantity \in 1..MaxAdd, price \in 1..MaxPrice :
    LET k == FindByProductId(cart.items, productId)
        currency == CurrencyOf[productId]
    IN
    \* generateTempId is called for a new product only
    \E tempId \in (IF k = 0 THEN FreshTempIds(cart) ELSE {NoArg}) :
    /\ (IF k = 0 THEN quantity ELSE cart.items[k].quantity + quantity) <= MaxQty
    /\ cart' = addItem(cart, productId, quantity, price, currency, tempId)
    /\ cartPrev' = cart
    /\ cartCall' = Call("addItem", productId, NoArg, quantity, price, currency)
    /\ UNCHANGED <<storageVars, busVars, extVars>>

RemoveItem ==
  \E itemId \in TempIds :
    /\ cart' = removeItem(cart, itemId)
    /\ cartPrev' = cart
    /\ cartCall' = Call("removeItem", NoArg, itemId, 0, 0, NoArg)
    /\ UNCHANGED <<storageVars, busVars, extVars>>

UpdateItemQuantity ==
  \E itemId \in TempIds, quantity \in (-1)..MaxQty :
    /\ cart' = updateItemQuantity(cart, itemId, quantity)
    /\ cartPrev' = cart
    /\ cartCall' = Call("updateItemQuantity", NoArg, itemId, quantity, 0, NoArg)
    /\ UNCHANGED <<storageVars, busVars, extVars>>

Clear ==
  /\ cart' = clear(cart)
  /\ cartPrev' = cart
  /\ cartCall' = Call("clear", NoArg, NoArg, 0, 0, NoArg)
  /\ UNCHANGED <<storageVars, busVars, extVars>>

\* Cart.fromAPI(cart.toJSON()): the cart is rebuilt from its plain object
RoundTrip ==
  /\ cart' = fromAPI(toJSON(cart))
  /\ cartPrev' = cart
  /\ cartCall' = Call("roundTrip", NoArg, NoArg, 0, 0, NoArg)
  /\ UNCHANGED <<storageVars, busVars, extVars>>

\* item.updateQuantity(quantity) on an item handed out by getAllItems: the
\* array is copied, the CartItem objects are shared with the cart
ItemUpdateQuantity ==
  \E k \in 1..Len(cart.items), quantity \in 1..MaxQty :
    /\ cart' = [cart EXCEPT !.items[k] = CartItemUpdateQuantity(cart.items[k], quantity)]
    /\ cartPrev' = cart
    /\ cartCall' = Call("item.updateQuantity", NoArg, cart.items[k].id, quantity, 0, NoArg)
    /\ UNCHANGED <<storageVars, busVars, extVars>>

CartNext == AddItem \/ RemoveItem \/ UpdateItemQuantity \/ Clear \/ RoundTrip

CartItemNext == CartNext \/ ItemUpdateQuantity

(***************************************************************************)
(* Properties of the Cart entity.                                          *)
(***************************************************************************)
CartOps == {"addItem", "removeItem", "updateItemQuantity", "clear"}

RECURSIVE SumOfProducts(_)
SumOfProducts(items) ==
  IF items = <<>> THEN 0
  ELSE Head(items).priceAtAdd * Head(items).quantity + SumOfProducts(Tail(items))

RECURSIVE SumOfQuantities(_)
SumOfQuantities(items) ==
  IF items = <<>> THEN 0
  ELSE Head(items).quantity + SumOfQuantities(Tail(items))

\* C1: after every call of addItem, removeItem, updateItemQuantity or clear,
\* cart.total is the sum of priceAtAdd * quantity over the items and
\* cart.itemCount is the sum of the items' quantities.
C1_TotalsConsistent ==
  cartCall.op \in CartOps =>
    /\ cart.total = SumOfProducts(cart.items)
    /\ cart.itemCount = SumOfQuantities(cart.items)

\* A cart of two items with different prices and quantities, just changed by
\* a call, whose totals are the sums.
C1_Witness ==
  /\ cartCall.op \in CartOps
  /\ Len(cart.items) = 2
  /\ cart.items[1].priceAtAdd # cart.items[2].priceAtAdd
  /\ cart.items[1].quantity # cart.items[2].quantity
  /\ cart.total = SumOfProducts(cart.items)
  /\ cart.total # cart.itemCount

\* C2: a cart holds at most one item per productId, and addItem for a
\* productId already in the cart adds the quantity to that item, leaving the
\* number and order of items as they were.
C2_OneItemPerProduct ==
  /\ \A i, j \in 1..Len(cart.items) :
       cart.items[i].productId = cart.items[j].productId => i = j
  /\ \A k \in 1..Len(cartPrev.items) :
       (cartCall.op = "addItem" /\ cartPrev.items[k].productId = cartCall.productId) =>
         /\ Len(cart.items) = Len(cartPrev.items)
         /\ cart.items[k].quantity = cartPrev.items[k].quantity + cartCall.quantity
         /\ \A j \in 1..Len(cart.items) :
              /\ cart.items[j].id = cartPrev.items[j].id
              /\ cart.items[j].productId = cartPrev.items[j].productId
              /\ j # k => cart.items[j] = cartPrev.items[j]

\* addItem(p, q2) on a cart that already held p with quantity q1: one item
\* for p, of quantity q1 + q2.
C2_Witness ==
  /\ cartCall.op = "addItem"
  /\ cartCall.quantity = 2
  /\ \E k \in 1..Len(cartPrev.items) :
       /\ cartPrev.items[k].productId = cartCall.productId
       /\ cartPrev.items[k].quantity = 1
       /\ cart.items[k].quantity = 3
  /\ Cardinality({i \in 1..Len(cart.items) :
                    cart.items[i].productId = cartCall.productId}) = 1

\* C3: every item's subtotal is priceAtAdd * quantity after every operation
\* that changes a quantity.
C3_SubtotalFollowsQuantity ==
  cartCall.op \in {"addItem", "updateItemQuantity", "item.updateQuantity"} =>
    \A i \in 1..Len(cart.items) :
      cart.items[i].subtotal = cart.items[i].priceAtAdd * cart.items[i].quantity

\* C4: Cart.fromAPI(cart.toJSON()) is equal to the cart: id, sessionId, total,
\* itemCount and the items, in order, field by field.
C4_RoundTripLossless ==
  LET back == fromAPI(toJSON(cart)) IN
  /\ back.id = cart.id
  /\ back.sessionId = cart.sessionId
  /\ back.total = cart.total
  /\ back.itemCount = cart.itemCount
  /\ Len(back.items) = Len(cart.items)
  /\ \A i \in 1..Len(cart.items) :
       /\ back.items[i].id = cart.items[i].id
       /\ back.items[i].productId = cart.items[i].productId
       /\ back.items[i].quantity = cart.items[i].quantity
       /\ back.items[i].priceAtAdd = cart.items[i].priceAtAdd
       /\ back.items[i].currency = cart.items[i].currency
       /\ back.items[i].subtotal = cart.items[i].subtotal

\* A cart rebuilt from its plain object: two items, one in the default
\* currency and one not, one of them with a quantity changed after it was
\* added.
C4_Witness ==
  /\ cartCall.op = "roundTrip"
  /\ cart = cartPrev
  /\ Len(cart.items) = 2
  /\ cart.items[1].currency # cart.items[2].currency
  /\ \E i \in 1..2 : cart.items[i].subtotal # cart.items[i].priceAtAdd * cart.items[i].quantity

\* C5: updateItemQuantity(id, q) removes the item when q <= 0 (the cart is
\* the one removeItem(id) gives), sets its quantity to q when q > 0, and
\* leaves items, total and itemCount alone when no item has that id.
C5_UpdateItemQuantity ==
  cartCall.op = "updateItemQuantity" =>
    LET id == cartCall.itemId
        q == cartCall.quantity
        present == \E i \in 1..Len(cartPrev.items) : cartPrev.items[i].id = id
    IN
    /\ (present /\ q <= 0) =>
         /\ cart = removeItem(cartPrev, id)
         /\ \A i \in 1..Len(cart.items) : cart.items[i].id # id
         /\ Len(cart.items) = Len(cartPrev.items) - 1
    /\ (present /\ q > 0) =>
         /\ Len(cart.items) = Len(cartPrev.items)
         /\ \A i \in 1..Len(cart.items) :
              /\ cart.items[i].id = cartPrev.items[i].id
              /\ cart.items[i].quantity =
                   (IF cart.items[i].id = id THEN q ELSE cartPrev.items[i].quantity)
    /\ ~present =>
         /\ cart.items = cartPrev.items
         /\ cart.total = cartPrev.total
         /\ cart.itemCount = cartPrev.itemCount

\* updateItemQuantity(id, 0) on a cart of two items that holds id: the item
\* is gone and the other one stays.
C5_Witness ==
  /\ cartCall.op = "updateItemQuantity"
  /\ cartCall.quantity = 0
  /\ Len(cartPrev.items) = 2
  /\ \E i \in 1..2 : cartPrev.items[i].id = cartCall.itemId
  /\ Len(cart.items) = 1
  /\ cart.items[1].id # cartCall.itemId

(***************************************************************************)
(* Storage: the localStorage wrapper with expiration.                      *)
(*                                                                         *)
(* The medium (window.localStorage) maps full keys to strings.  It is in   *)
(* one of four conditions:                                                 *)
(*   "ok"      every call works;                                           *)
(*   "quota"   setItem throws (quota exceeded), the other calls work;      *)
(*   "broken"  every call on the storage object throws;                    *)
(*   "denied"  reading window.localStorage itself throws (storage          *)
(*             disabled for the page).                                     *)
(***************************************************************************)
MaxTime == 4     \* the clock runs over 0..MaxTime
MaxTtl == 2      \* set is called with a ttl in 0..MaxTtl, or without one

NullNum == -1    \* a null where a number is expected (ttl, expires)
Null == "null"   \* a null where a value is expected

SessionDuration == 86400000

Prefix == "shop_"
Keys == {"k1", "shop_cart"}
Values == {"v1", "v2"}
Defaults == {Null, "dflt"}
cartStorageKey == "shop_cart"
ForeignKey == <<"", "theme">>       \* a key of the medium without the prefix
MediumModes == {"ok", "quota", "broken", "denied"}

\* JavaScript truthiness of a number or null
Truthy(x) == x # NullNum /\ x # 0

\* JSON.stringify / JSON.parse of a JSON value: the text of x, and back
Stringify(x) == <<"json", x>>
Parse(s) == s[2]

\* Storage.getKey
getKey(key) == <<Prefix, key>>

\* k.startsWith(this.prefix)
StartsWithPrefix(fullKey) == fullKey[1] = Prefix

\* k.replace(this.prefix, '')
StripPrefix(fullKey) == fullKey[2]

\* The outcome of a method body: the medium after it, the value or boolean
\* it returns, and whether it ended by throwing.
Outcome(md, value, flag, keys, threw) ==
  [medium |-> md, value |-> value, flag |-> flag, keys |-> keys, threw |-> threw]

Threw(md) == Outcome(md, Null, FALSE, {}, TRUE)

\* try { body } catch (error) { console.error(...); return fallback }
CatchReturning(r, value, flag, keys) ==
  IF r.threw THEN Outcome(r.medium, value, flag, keys, FALSE) ELSE r

\* localStorage.setItem / getItem / removeItem
MediumAccepts(mode) == mode = "ok"
MediumResponds(mode) == mode \in {"ok", "quota"}

DropKey(md, fullKey) == [k \in DOMAIN md \ {fullKey} |-> md[k]]
PutKey(md, fullKey, text) ==
  [k \in DOMAIN md \cup {fullKey} |-> IF k = fullKey THEN text ELSE md[k]]

\* expires: ttl ? Date.now() + ttl : null
Expires(t, ttl) == IF Truthy(ttl) THEN t + ttl ELSE NullNum

\* Storage.set
StorageSet(md, mode, t, key, value, ttl) ==
  CatchReturning(
    IF MediumAccepts(mode)
    THEN Outcome(PutKey(md, getKey(key),
                        Stringify([value |-> Stringify(value),
                                   expires |-> Expires(t, ttl)])),
                 Null, TRUE, {}, FALSE)
    ELSE Threw(md),
    Null, FALSE, {})

\* Storage.remove
StorageRemove(md, mode, key) ==
  CatchReturning(
    IF MediumResponds(mode)
    THEN Outcome(DropKey(md, getKey(key)), Null, TRUE, {}, FALSE)
    ELSE Threw(md),
    Null, FALSE, {})

\* parsed.expires && parsed.expires < Date.now()
IsExpired(expires, t) == Truthy(expires) /\ expires < t

StorageGetKeepingExpired(md, mode, t, key, defaultValue) ==
  CatchReturning(
    IF ~MediumResponds(mode) THEN Threw(md)
    ELSE IF getKey(key) \notin DOMAIN md
    THEN Outcome(md, defaultValue, FALSE, {}, FALSE)
    ELSE LET parsed == Parse(md[getKey(key)]) IN
         IF IsExpired(parsed.expires, t)
         THEN Outcome(md, defaultValue, FALSE, {}, FALSE)
         ELSE Outcome(md, Parse(parsed.value), FALSE, {}, FALSE),
    defaultValue, FALSE, {})

\* Storage.get
StorageGet(md, mode, t, key, defaultValue) ==
  CatchReturning(
    IF ~MediumResponds(mode) THEN Threw(md)
    ELSE IF getKey(key) \notin DOMAIN md
    THEN Outcome(md, defaultValue, FALSE, {}, FALSE)
    ELSE LET parsed == Parse(md[getKey(key)]) IN
         IF IsExpired(parsed.expires, t)
         THEN Outcome(StorageRemove(md, mode, key).medium,
                      defaultValue, FALSE, {}, FALSE)
         ELSE Outcome(md, Parse(parsed.value), FALSE, {}, FALSE),
    defaultValue, FALSE, {})

\* Storage.has: this.get(key) !== null
StorageHas(md, mode, t, key) ==
  LET r == StorageGet(md, mode, t, key, Null) IN
  Outcome(r.medium, Null, r.value # Null, {}, r.threw)

\* Storage.clear
StorageClear(md, mode, key) ==
  CatchReturning(
    IF key # Null
    THEN LET r == StorageRemove(md, mode, key) IN
         Outcome(r.medium, Null, FALSE, {}, r.threw)
    ELSE IF MediumResponds(mode)
    THEN Outcome([k \in {f \in DOMAIN md : ~StartsWithPrefix(f)} |-> md[k]],
                 Null, FALSE, {}, FALSE)
    ELSE Threw(md),
    Null, FALSE, {})

\* Storage.keys
StorageKeys(md, mode) ==
  CatchReturning(
    IF MediumResponds(mode)
    THEN Outcome(md, Null, FALSE,
                 {StripPrefix(f) : f \in {g \in DOMAIN md : StartsWithPrefix(g)}},
                 FALSE)
    ELSE Threw(md),
    Null, FALSE, {})

\* new Storage(): this.storage = window.localStorage, outside any try
StorageCtor(md, mode) ==
  IF mode = "denied" THEN Threw(md) ELSE Outcome(md, Null, TRUE, {}, FALSE)

\* CartStorage.saveCart: storage.set(storageKey, data, sessionDuration) in a try
saveCart(md, mode, t, data) ==
  LET r == CatchReturning(StorageSet(md, mode, t, cartStorageKey, data, SessionDuration),
                          Null, FALSE, {}) IN
  Outcome(r.medium, Null, FALSE, {}, r.threw)

\* CartStorage.getCart: storage.get(storageKey) in a try
getCart(md, mode, t) ==
  CatchReturning(StorageGet(md, mode, t, cartStorageKey, Null), Null, FALSE, {})

(***************************************************************************)
(* The calls made on the Storage singleton, the clock and the medium's     *)
(* condition.                                                              *)
(***************************************************************************)
Ttls == {NullNum} \cup (0..MaxTtl)

StCall(op, key, value, ttl, defaultValue, r) ==
  [op |-> op, key |-> key, value |-> value, ttl |-> ttl,
   defaultValue |-> defaultValue,
   ret |-> r.value, flag |-> r.flag, keys |-> r.keys, threw |-> r.threw]

NoOutcome == Outcome(<<>>, Null, FALSE, {}, FALSE)

StorageInit ==
  /\ medium = [k \in {ForeignKey} |-> <<"raw", "dark">>]
  /\ mediumPrev = medium
  /\ mediumMode \in MediumModes
  /\ now = 0
  /\ storageState = "unloaded"
  /\ stCall = StCall("none", Null, Null, NullNum, Null, NoOutcome)

\* The page's storage as the cart and the bus see it: not yet touched.
StorageIdle == StorageInit /\ mediumMode = "ok"

Did(op, key, value, ttl, defaultValue, r) ==
  /\ medium' = r.medium
  /\ mediumPrev' = medium
  /\ stCall' = StCall(op, key, value, ttl, defaultValue, r)

\* const storage = new Storage(), when the module is loaded
Construct ==
  /\ storageState = "unloaded"
  /\ LET r == StorageCtor(medium, mediumMode) IN
     /\ storageState' = (IF r.threw THEN "failed" ELSE "ready")
     /\ Did("new", Null, Null, NullNum, Null, r)
  /\ UNCHANGED <<mediumMode, now, cartVars, busVars, extVars>>

Set ==
  /\ storageState = "ready"
  /\ \E key \in Keys, value \in Values, ttl \in Ttls :
       Did("set", key, value, ttl, Null,
           StorageSet(medium, mediumMode, now, key, value, ttl))
  /\ UNCHANGED <<mediumMode, now, storageState, cartVars, busVars, extVars>>

Get ==
  /\ storageState = "ready"
  /\ \E key \in Keys, defaultValue \in Defaults :
       Did("get", key, Null, NullNum, defaultValue,
           StorageGet(medium, mediumMode, now, key, defaultValue))
  /\ UNCHANGED <<mediumMode, now, storageState, cartVars, busVars, extVars>>

Remove ==
  /\ storageState = "ready"
  /\ \E key \in Keys :
       Did("remove", key, Null, NullNum, Null,
           StorageRemove(medium, mediumMode, key))
  /\ UNCHANGED <<mediumMode, now, storageState, cartVars, busVars, extVars>>

Has ==
  /\ storageState = "ready"
  /\ \E key \in Keys :
       Did("has", key, Null, NullNum, Null,
           StorageHas(medium, mediumMode, now, key))
  /\ UNCHANGED <<mediumMode, now, storageState, cartVars, busVars, extVars>>

ClearStorage ==
  /\ storageState = "ready"
  /\ \E key \in Keys \cup {Null} :
       Did("clear", key, Null, NullNum, Null,
           StorageClear(medium, mediumMode, key))
  /\ UNCHANGED <<mediumMode, now, storageState, cartVars, busVars, extVars>>

ListKeys ==
  /\ storageState = "ready"
  /\ Did("keys", Null, Null, NullNum, Null, StorageKeys(medium, mediumMode))
  /\ UNCHANGED <<mediumMode, now, storageState, cartVars, busVars, extVars>>

SaveCart ==
  /\ storageState = "ready"
  /\ \E data \in Values :
       Did("saveCart", cartStorageKey, data, SessionDuration, Null,
           saveCart(medium, mediumMode, now, data))
  /\ UNCHANGED <<mediumMode, now, storageState, cartVars, busVars, extVars>>

GetCart ==
  /\ storageState = "ready"
  /\ Did("getCart", cartStorageKey, Null, NullNum, Null,
         getCart(medium, mediumMode, now))
  /\ UNCHANGED <<mediumMode, now, storageState, cartVars, busVars, extVars>>

\* Time passes.  Nothing else happens: the wrapper has no timer.
Tick ==
  /\ now < MaxTime
  /\ now' = now + 1
  /\ mediumPrev' = medium
  /\ stCall' = StCall("tick", Null, Null, NullNum, Null, NoOutcome)
  /\ UNCHANGED <<medium, mediumMode, storageState, cartVars, busVars, extVars>>

\* The origin's quota is used up by other writers, or freed again.
QuotaExceeded ==
  /\ mediumMode = "ok"
  /\ mediumMode' = "quota"
  /\ mediumPrev' = medium
  /\ stCall' = StCall("env", Null, Null, NullNum, Null, NoOutcome)
  /\ UNCHANGED <<medium, now, storageState, cartVars, busVars, extVars>>

QuotaFreed ==
  /\ mediumMode = "quota"
  /\ mediumMode' = "ok"
  /\ mediumPrev' = medium
  /\ stCall' = StCall("env", Null, Null, NullNum, Null, NoOutcome)
  /\ UNCHANGED <<medium, now, storageState, cartVars, busVars, extVars>>

StorageNext ==
  \/ Construct \/ Set \/ Get \/ Remove \/ Has \/ ClearStorage \/ ListKeys
  \/ SaveCart \/ GetCart \/ Tick \/ QuotaExceeded \/ QuotaFreed

(***************************************************************************)
(* Properties of Storage.                                                  *)
(***************************************************************************)
\* The entry the medium holds for key, as JSON.parse gives it
EntryOf(md, key) == Parse(md[getKey(key)])

Stored(md, key) == getKey(key) \in DOMAIN md

\* C6: set(k, v, ttl) at time t stores v with expiry t + ttl; a get before
\* the expiry returns v and leaves the entry; the first get or has after the
\* expiry returns the default (false) and removes the entry; get and has of
\* an absent key return the default (false); the passing of time alone
\* removes nothing.
C6_ExpiringEntry ==
  /\ (stCall.op = "set" /\ stCall.flag /\ stCall.ttl >= 1) =>
       /\ Stored(medium, stCall.key)
       /\ Parse(EntryOf(medium, stCall.key).value) = stCall.value
       /\ EntryOf(medium, stCall.key).expires = now + stCall.ttl
  /\ (stCall.op \in {"get", "has"} /\ Stored(mediumPrev, stCall.key)
        /\ EntryOf(mediumPrev, stCall.key).expires # NullNum) =>
       LET e == EntryOf(mediumPrev, stCall.key) IN
       /\ now < e.expires =>
            /\ medium = mediumPrev
            /\ stCall.op = "get" => stCall.ret = Parse(e.value)
            /\ stCall.op = "has" => stCall.flag
       /\ now > e.expires =>
            /\ ~Stored(medium, stCall.key)
            /\ stCall.op = "get" => stCall.ret = stCall.defaultValue
            /\ stCall.op = "has" => ~stCall.flag
  /\ (stCall.op \in {"get", "has"} /\ ~Stored(mediumPrev, stCall.key)) =>
       /\ medium = mediumPrev
       /\ stCall.op = "get" => stCall.ret = stCall.defaultValue
       /\ stCall.op = "has" => ~stCall.flag
  /\ stCall.op \in {"tick", "env"} => medium = mediumPrev

\* has(k) on an entry whose expiry has passed: false, and the entry is gone.
C6_Witness ==
  /\ stCall.op = "has"
  /\ Stored(mediumPrev, stCall.key)
  /\ EntryOf(mediumPrev, stCall.key).expires # NullNum
  /\ EntryOf(mediumPrev, stCall.key).expires < now
  /\ ~stCall.flag
  /\ ~Stored(medium, stCall.key)

\* C7: whatever the condition of the medium, no Storage operation, the
\* construction included, ends by throwing; where the medium's call throws,
\* set and remove report false, get returns the default, has returns false,
\* keys returns the empty list and clear changes nothing; saveCart and
\* getCart of CartStorage complete.
C7_NeverThrows ==
  /\ ~stCall.threw
  /\ storageState # "failed"
  /\ (stCall.op = "set" /\ ~MediumAccepts(mediumMode)) =>
       ~stCall.flag /\ medium = mediumPrev
  /\ (stCall.op = "saveCart" /\ ~MediumAccepts(mediumMode)) => medium = mediumPrev
  /\ ~MediumResponds(mediumMode) =>
       /\ stCall.op = "remove" => ~stCall.flag
       /\ stCall.op = "get" => stCall.ret = stCall.defaultValue
       /\ stCall.op = "getCart" => stCall.ret = Null
       /\ stCall.op = "has" => ~stCall.flag
       /\ stCall.op = "keys" => stCall.keys = {}
       /\ stCall.op = "clear" => medium = mediumPrev

(***************************************************************************)
(* EventBus                                                                *)
(*                                                                         *)
(* events maps an event name to its Set of callbacks; a JavaScript Set     *)
(* iterates in insertion order, so it is a sequence without repetition,    *)
(* and <<>> stands for an event name the Map has no entry for (the code    *)
(* never keeps an empty Set).                                              *)
(*                                                                         *)
(* A publish call in progress is a frame of the call stack: the event, the *)
(* copied listeners, the callbacks invoked so far and whether the last of  *)
(* them is still running.  A running callback may itself call the bus.     *)
(***************************************************************************)
MaxDepth == 2    \* publish calls nested at most this deep
MaxOnceCalls == 2 \* invocations of the once() callback are counted up to this

EventNames == {"cart:item-added", "cart:count-updated"}
Handlers == {"h1", "h2"}

Contains(seq, x) == \E i \in 1..Len(seq) : seq[i] = x
Without(seq, x) == SelectSeq(seq, LAMBDA y : y # x)
Range(seq) == {seq[i] : i \in 1..Len(seq)}
Last(seq) == seq[Len(seq)]

\* this.events.has(eventName)
HasEvent(evts, eventName) == evts[eventName] # <<>>

subscribeAppending(evts, eventName, callback) ==
  [evts EXCEPT ![eventName] = Append(@, callback)]

\* EventBus.subscribe: listeners.add(callback)
subscribe(evts, eventName, callback) ==
  [evts EXCEPT ![eventName] =
     IF Contains(@, callback) THEN @ ELSE Append(@, callback)]

unsubscribeAll(evts, eventName, callback) ==
  [evts EXCEPT ![eventName] = <<>>]

\* EventBus.unsubscribe: listeners.delete(callback), and the entry is
\* deleted when the Set becomes empty
unsubscribe(evts, eventName, callback) ==
  IF ~HasEvent(evts, eventName) THEN evts
  ELSE [evts EXCEPT ![eventName] = Without(@, callback)]

\* EventBus.clear
clearEvents(evts, eventName) ==
  IF eventName # Null
  THEN [evts EXCEPT ![eventName] = <<>>]
  ELSE [e \in EventNames |-> <<>>]

\* EventBus.listenerCount
listenerCount(evts, eventName) ==
  IF ~HasEvent(evts, eventName) THEN 0 ELSE Len(evts[eventName])

\* EventBus.getEventNames: Array.from(this.events.keys())
getEventNames(evts) == {e \in EventNames : HasEvent(evts, e)}

Reversed(seq) == [i \in 1..Len(seq) |-> seq[Len(seq) + 1 - i]]

ListenersCopyReversed(listeners) == Reversed(listeners)

\* const listenersCopy = Array.from(listeners)
ListenersCopy(listeners) == listeners

\* The frame of publish(eventName): atCall, stale, thrown and escaped record
\* what happened (the listeners when publish was called, the callbacks
\* invoked though no longer registered, the callbacks that threw, an
\* exception leaving publish).
NewFrameGuarded(evts, eventName) ==
  [event |-> eventName,
   listenersCopy |-> IF stack = <<>> THEN ListenersCopy(evts[eventName]) ELSE <<>>,
   atCall |-> evts[eventName],
   called |-> <<>>,
   running |-> FALSE,
   stale |-> {},
   thrown |-> {},
   escaped |-> FALSE]

NewFrame(evts, eventName) ==
  [event |-> eventName,
   listenersCopy |-> ListenersCopy(evts[eventName]),
   atCall |-> evts[eventName],
   called |-> <<>>,
   running |-> FALSE,
   stale |-> {},
   thrown |-> {},
   escaped |-> FALSE]

PendingLive(frame, listeners) ==
  IF frame.escaped THEN <<>>
  ELSE SelectSeq(listeners, LAMBDA h : ~Contains(frame.called, h))

\* for (const callback of listenersCopy): the callbacks still to invoke; the
\* loop runs over the copy, not over the live Set `listeners`
Pending(frame, listeners) ==
  IF frame.escaped THEN <<>>
  ELSE SubSeq(frame.listenersCopy, Len(frame.called) + 1, Len(frame.listenersCopy))

OnThrowUncaught(frame) ==
  [frame EXCEPT !.running = FALSE, !.thrown = @ \cup {Last(frame.called)},
                !.escaped = TRUE]

\* try { callback(data) } catch (error) { console.error(...) }: the loop
\* goes on with the next callback
OnThrow(frame) ==
  [frame EXCEPT !.running = FALSE, !.thrown = @ \cup {Last(frame.called)}]

Top == stack[Len(stack)]
SetTop(frame) == [stack EXCEPT ![Len(stack)] = frame]

\* The bus is called by the page's code when no publish is in progress, or
\* by the callback that is running.
MayCallBus == IF stack = <<>> THEN TRUE ELSE Top.running

\* The callback that once() subscribes in place of the caller's:
\* const wrappedCallback = (data) => { callback(data); this.unsubscribe(...) }
wrappedCallback == "wrappedCallback"

EmptyRegistry == [e \in EventNames |-> <<>>]

\* No function returned by subscribe has been called yet.
NoBusCall ==
  [op |-> "-", event |-> "-", callback |-> "-", before |-> EmptyRegistry,
   after |-> EmptyRegistry, again |-> FALSE, threw |-> FALSE]

\* once() has not been called.
NoOnce == [event |-> Null, calls |-> 0]

BusInit ==
  /\ events = EmptyRegistry
  /\ stack = <<>>
  /\ unsubFns = [f \in EventNames \X Handlers |-> "none"]
  /\ busCall = NoBusCall
  /\ once = NoOnce

Subscribe ==
  /\ MayCallBus
  /\ \E eventName \in EventNames, callback \in Handlers :
       events' = subscribe(events, eventName, callback)
  /\ UNCHANGED <<stack, cartVars, storageVars, extVars>>

Unsubscribe ==
  /\ MayCallBus
  /\ \E eventName \in EventNames, callback \in Handlers :
       events' = unsubscribe(events, eventName, callback)
  /\ UNCHANGED <<stack, cartVars, storageVars, extVars>>

ClearEvents ==
  /\ MayCallBus
  /\ \E eventName \in EventNames \cup {Null} :
       events' = clearEvents(events, eventName)
  /\ UNCHANGED <<stack, cartVars, storageVars, extVars>>

\* publish(eventName): returns at once when the event has no entry,
\* otherwise copies the listeners and starts the loop
Publish ==
  /\ MayCallBus
  /\ Len(stack) < MaxDepth
  /\ \E eventName \in EventNames :
       stack' = IF HasEvent(events, eventName)
                THEN Append(stack, NewFrame(events, eventName))
                ELSE stack
  /\ UNCHANGED <<events, cartVars, storageVars, extVars>>

\* The loop calls the next callback.
InvokeCallback ==
  /\ stack # <<>>
  /\ ~Top.running
  /\ Pending(Top, events[Top.event]) # <<>>
  /\ LET callback == Head(Pending(Top, events[Top.event])) IN
     /\ stack' = SetTop([Top EXCEPT
                    !.called = Append(@, callback),
                    !.running = TRUE,
                    !.stale = IF Contains(events[Top.event], callback)
                              THEN @ ELSE @ \cup {callback}])
     /\ once' = IF callback = wrappedCallback
                THEN [once EXCEPT !.calls = IF @ < MaxOnceCalls THEN @ + 1 ELSE @]
                ELSE once
  /\ UNCHANGED <<events, cartVars, storageVars, handleVars, sessionVars, syncVars, pageVars>>

CallbackReturns ==
  /\ stack # <<>>
  /\ Top.running
  /\ Last(Top.called) # wrappedCallback
  /\ stack' = SetTop([Top EXCEPT !.running = FALSE])
  /\ UNCHANGED <<events, cartVars, storageVars, extVars>>

CallbackThrows ==
  /\ stack # <<>>
  /\ Top.running
  /\ stack' = SetTop(OnThrow(Top))
  /\ UNCHANGED <<events, cartVars, storageVars, extVars>>

\* The loop is over: publish returns to its caller.
PublishReturns ==
  /\ stack # <<>>
  /\ ~Top.running
  /\ Pending(Top, events[Top.event]) = <<>>
  /\ stack' = SubSeq(stack, 1, Len(stack) - 1)
  /\ UNCHANGED <<events, cartVars, storageVars, extVars>>

BusNext ==
  \/ Subscribe \/ Unsubscribe \/ ClearEvents \/ Publish
  \/ InvokeCallback \/ CallbackReturns \/ CallbackThrows \/ PublishReturns

(***************************************************************************)
(* The functions returned by subscribe.                                    *)
(*                                                                         *)
(* subscribe returns () => this.unsubscribe(eventName, callback).  A       *)
(* returned function is "fresh" until it is called and "spent" afterwards; *)
(* subscribing the same callback to the same event again makes the         *)
(* functions returned for that pair fresh again.                           *)
(***************************************************************************)
NotAFunction == "not-a-function"
NoEventName == ""

\* if (!eventName || typeof eventName !== 'string') throw ...
\* if (typeof callback !== 'function') throw ...
SubscribeThrows(eventName, callback) ==
  eventName = NoEventName \/ callback = NotAFunction

BusCall(op, eventName, callback, before, after, again, threw) ==
  [op |-> op, event |-> eventName, callback |-> callback, before |-> before,
   after |-> after, again |-> again, threw |-> threw]

\* const off = eventBus.subscribe(eventName, callback)
SubscribeFn ==
  /\ stack = <<>>
  /\ \E eventName \in EventNames \cup {NoEventName},
        callback \in Handlers \cup {NotAFunction} :
       IF SubscribeThrows(eventName, callback)
       THEN /\ busCall' = BusCall("subscribe", eventName, callback, events,
                                  events, FALSE, TRUE)
            /\ UNCHANGED <<events, unsubFns>>
       ELSE /\ events' = subscribe(events, eventName, callback)
            /\ unsubFns' = [unsubFns EXCEPT ![<<eventName, callback>>] = "fresh"]
            /\ busCall' = BusCall("subscribe", eventName, callback, events,
                                  events', FALSE, FALSE)
  /\ UNCHANGED <<stack, once, cartVars, storageVars, sessionVars, syncVars, pageVars>>

\* off(): the returned function calls this.unsubscribe(eventName, callback)
CallUnsubscribeFn ==
  /\ stack = <<>>
  /\ \E f \in EventNames \X Handlers :
       /\ unsubFns[f] # "none"
       /\ events' = unsubscribe(events, f[1], f[2])
       /\ unsubFns' = [unsubFns EXCEPT ![f] = "spent"]
       /\ busCall' = BusCall("off", f[1], f[2], events, events',
                             unsubFns[f] = "spent", FALSE)
  /\ UNCHANGED <<stack, once, cartVars, storageVars, sessionVars, syncVars, pageVars>>

SubscriptionNext ==
  \/ SubscribeFn \/ CallUnsubscribeFn \/ Unsubscribe \/ ClearEvents

(***************************************************************************)
(* EventBus.once                                                           *)
(***************************************************************************)
\* once(eventName, callback): subscribes wrappedCallback
Once ==
  /\ MayCallBus
  /\ once.event = Null
  /\ \E eventName \in EventNames :
       /\ events' = subscribe(events, eventName, wrappedCallback)
       /\ once' = [event |-> eventName, calls |-> 0]
  /\ UNCHANGED <<stack, handleVars, cartVars, storageVars, sessionVars, syncVars, pageVars>>

\* wrappedCallback: callback(data) has returned, then
\* this.unsubscribe(eventName, wrappedCallback)
WrappedCallbackReturns ==
  /\ stack # <<>>
  /\ Top.running
  /\ Last(Top.called) = wrappedCallback
  /\ events' = unsubscribe(events, once.event, wrappedCallback)
  /\ stack' = SetTop([Top EXCEPT !.running = FALSE])
  /\ UNCHANGED <<once, handleVars, cartVars, storageVars, sessionVars, syncVars, pageVars>>

\* A page that subscribes handlers, registers one with once() and publishes.
OnceNext ==
  \/ Once \/ Subscribe \/ Publish \/ InvokeCallback \/ CallbackReturns
  \/ WrappedCallbackReturns \/ CallbackThrows \/ PublishReturns

(***************************************************************************)
(* Properties of the event bus.                                            *)
(***************************************************************************)
\* The loop of a publish call is over.
Complete(frame) == ~frame.running /\ Pending(frame, events[frame.event]) = <<>>

IsPrefix(a, b) == Len(a) <= Len(b) /\ SubSeq(b, 1, Len(a)) = a

\* C8: publish(e) invokes the handlers registered for e when it was called,
\* each once, in the order of their subscription, all of them before it
\* returns, and no other handler.
C8_PublishInvokesRegistered ==
  \A i \in 1..Len(stack) :
    /\ IsPrefix(stack[i].called, stack[i].atCall)
    /\ Complete(stack[i]) => stack[i].called = stack[i].atCall

\* publish is about to return after invoking h2 then h1, subscribed in that
\* order, while the other event has a different list of handlers.
C8_Witness ==
  /\ Len(stack) = 1
  /\ Complete(stack[1])
  /\ stack[1].atCall = <<"h2", "h1">>
  /\ stack[1].called = <<"h2", "h1">>
  /\ \E e \in EventNames :
       e # stack[1].event /\ events[e] # <<>> /\ events[e] # stack[1].atCall

\* C9: a dispatch pass runs against the handlers registered when publish was
\* called: a handler subscribed during the pass is not invoked in it, a
\* handler unsubscribed or cleared during the pass is still invoked in it,
\* and a publish that starts afterwards sees the registrations as they are
\* then.
C9_SnapshotDispatch ==
  \A i \in 1..Len(stack) :
    LET f == stack[i] IN
    /\ \A h \in Handlers :
         /\ (~Contains(f.atCall, h)) => ~Contains(f.called, h)
         /\ (Complete(f) /\ Contains(f.atCall, h)) => Contains(f.called, h)
    /\ (i = Len(stack) /\ f.called = <<>>) =>
         Range(f.listenersCopy) = Range(events[f.event])

\* Two passes in progress: in one a handler was invoked after an earlier
\* handler had unsubscribed it; the other is over without having invoked the
\* handler that was subscribed to its event while it ran.
C9_Witness ==
  /\ \E i \in 1..Len(stack) : stack[i].stale # {}
  /\ \E j \in 1..Len(stack) :
       /\ Complete(stack[j])
       /\ \E h \in Handlers :
            /\ Contains(events[stack[j].event], h)
            /\ ~Contains(stack[j].atCall, h)
            /\ ~Contains(stack[j].called, h)

\* The handlers that follow h in the list
After(seq, h) == {seq[j] : j \in {k \in 1..Len(seq) : \E m \in 1..(k - 1) : seq[m] = h}}

\* A step in which a running handler throws
ThrowStep ==
  /\ stack # <<>>
  /\ Len(stack') = Len(stack)
  /\ stack'[Len(stack)].thrown # stack[Len(stack)].thrown

\* C10: when a handler throws during publish, the handlers registered after
\* it are still invoked in the same pass, the exception does not leave
\* publish, and the registered handlers are the same after the failure.
C10_ThrowingHandlerIsolated ==
  /\ [](\A i \in 1..Len(stack) :
          /\ ~stack[i].escaped
          /\ \A h \in stack[i].thrown :
               /\ After(stack[i].atCall, h) # {} => ~Complete(stack[i])
                    \/ After(stack[i].atCall, h) \subseteq Range(stack[i].called)
               /\ Complete(stack[i]) =>
                    After(stack[i].atCall, h) \subseteq Range(stack[i].called))
  /\ [][ThrowStep => events' = events]_vars

\* The first of two handlers threw, and the pass went on to the second.
C10_Witness ==
  /\ Len(stack) = 1
  /\ Complete(stack[1])
  /\ Len(stack[1].atCall) = 2
  /\ stack[1].thrown = {stack[1].atCall[1]}
  /\ stack[1].called = stack[1].atCall

C11_SecondCall == ~(busCall.op = "off" /\ busCall.again)

\* wrappedCallback is being called in some publish in progress.
WrappedRunning ==
  \E i \in 1..Len(stack) :
    stack[i].running /\ Last(stack[i].called) = wrappedCallback

\* C12: the handler given to once(e, h) is invoked for at most one publish
\* of e, and is not registered any more once its first invocation is over,
\* whether it returned, threw or published e itself.
C12_OnceAtMostOnce ==
  /\ once.calls <= 1
  /\ (once.calls >= 1 /\ ~WrappedRunning) =>
       ~Contains(events[once.event], wrappedCallback)

\* C13: publish called from inside a handler runs against its own snapshot
\* and to its end, no publish in progress is ever stuck, and the publish
\* calls it is nested in are left as they were: they go on with the
\* handlers they had left.
C13_ReentrantPublish ==
  /\ [](/\ \A i \in 1..Len(stack) :
            /\ stack[i].listenersCopy = stack[i].atCall
            /\ IsPrefix(stack[i].called, stack[i].listenersCopy)
            /\ i < Len(stack) => stack[i].running
        /\ stack # <<>> =>
             ENABLED (InvokeCallback \/ CallbackReturns \/ CallbackThrows
                        \/ PublishReturns))
  /\ [][/\ \A i \in 1..(Len(stack) - 1) :
            i <= Len(stack') => stack'[i] = stack[i]
        /\ Len(stack') < Len(stack) =>
             Complete(Top) /\ Top.called = Top.atCall]_vars

\* A handler of the first publish published the same event; the nested
\* publish has invoked all its handlers and the outer one has one left.
C13_Witness ==
  /\ Len(stack) = 2
  /\ stack[2].event = stack[1].event
  /\ Complete(stack[2])
  /\ Len(stack[2].called) = 2
  /\ Len(stack[1].atCall) = 2
  /\ Len(stack[1].called) = 1

(***************************************************************************)
(* Session identity.                                                       *)
(*                                                                         *)
(* A token is 'session_' + Date.now() + '_' + a random suffix; the model   *)
(* names the tokens in the order they are generated and takes two          *)
(* generated tokens to differ.  CartStorage, ApiClient and CartHandler     *)
(* each have their own get-or-create over the same cache entry.            *)
(***************************************************************************)
MaxTokens == 3   \* tokens generated at most
MaxDays == 2     \* the clock runs for this many session durations
MaxMillis == 2   \* and for this many single milliseconds

TokenName == <<"session_1", "session_2", "session_3", "session_4", "session_5">>
sessionKey == "shop_session_id"

\* 'session_' + Date.now() + '_' + Math.random().toString(36).substr(2, 9)
NewToken(n) == TokenName[n + 1]

\* !sessionId
NoSessionId(sessionId) == sessionId = Null \/ sessionId = ""

\* The result of a get-or-create: the medium after it, the token returned
\* and the number of tokens generated.
SessionResult(md, token, n) == [medium |-> md, value |-> token, generated |-> n]

\* CartStorage.getSessionId
getSessionId(md, mode, t) ==
  CatchReturning(StorageGet(md, mode, t, sessionKey, Null), Null, FALSE, {})

saveSessionIdForever(md, mode, t, sessionId) ==
  CatchReturning(StorageSet(md, mode, t, sessionKey, sessionId, NullNum),
                 Null, FALSE, {})

\* CartStorage.saveSessionId
saveSessionId(md, mode, t, sessionId) ==
  CatchReturning(StorageSet(md, mode, t, sessionKey, sessionId, SessionDuration),
                 Null, FALSE, {})

\* CartStorage.generateSessionId
generateSessionId(md, mode, t, n) ==
  SessionResult(saveSessionId(md, mode, t, NewToken(n)).medium, NewToken(n), n + 1)

\* CartStorage.getOrCreateSessionId
getOrCreateSessionId(md, mode, t, n) ==
  LET r == getSessionId(md, mode, t) IN
  IF NoSessionId(r.value)
  THEN generateSessionId(r.medium, mode, t, n)
  ELSE SessionResult(r.medium, r.value, n)

\* ApiClient.getSessionId
ApiGetSessionId(md, mode, t, n) ==
  LET r == StorageGet(md, mode, t, sessionKey, Null) IN
  IF NoSessionId(r.value)
  THEN SessionResult(StorageSet(r.medium, mode, t, sessionKey, NewToken(n),
                                SessionDuration).medium,
                     NewToken(n), n + 1)
  ELSE SessionResult(r.medium, r.value, n)

\* CartHandler.getOrCreateSessionId
HandlerGetOrCreateSessionId(md, mode, t, n) ==
  LET r == StorageGet(md, mode, t, "shop_session_id", Null) IN
  IF NoSessionId(r.value)
  THEN SessionResult(StorageSet(r.medium, mode, t, "shop_session_id", NewToken(n),
                                86400000).medium,
                     NewToken(n), n + 1)
  ELSE SessionResult(r.medium, r.value, n)

NoIssued == [token |-> Null, at |-> 0]
NoSessCall == [by |-> "-", returned |-> Null, at |-> 0, before |-> NoIssued,
               fresh |-> FALSE]

SessionInit ==
  /\ generated = 0
  /\ issued = NoIssued
  /\ sessCall = NoSessCall

\* A call that asks for the session token, with its effect on the cache.
AskedSession(by, r) ==
  /\ medium' = r.medium
  /\ generated' = r.generated
  /\ issued' = IF r.generated = generated THEN issued
               ELSE [token |-> r.value, at |-> now]
  /\ sessCall' = [by |-> by, returned |-> r.value, at |-> now, before |-> issued,
                  fresh |-> r.generated # generated]

GetOrCreateSessionId ==
  /\ generated < MaxTokens
  /\ AskedSession("CartStorage", getOrCreateSessionId(medium, mediumMode, now, generated))
  /\ UNCHANGED <<mediumPrev, mediumMode, now, storageState, stCall,
                 cartVars, busVars, handleVars, once, syncVars, pageVars>>

ApiGetSessionIdCall ==
  /\ generated < MaxTokens
  /\ AskedSession("ApiClient", ApiGetSessionId(medium, mediumMode, now, generated))
  /\ UNCHANGED <<mediumPrev, mediumMode, now, storageState, stCall,
                 cartVars, busVars, handleVars, once, syncVars, pageVars>>

HandlerGetOrCreateSessionIdCall ==
  /\ generated < MaxTokens
  /\ AskedSession("CartHandler",
                  HandlerGetOrCreateSessionId(medium, mediumMode, now, generated))
  /\ UNCHANGED <<mediumPrev, mediumMode, now, storageState, stCall,
                 cartVars, busVars, handleVars, once, syncVars, pageVars>>

\* The clock moves on by a millisecond or by a whole session duration.
ClockEnd == MaxDays * SessionDuration + MaxMillis

ClockAdvances ==
  /\ \E w \in {1, SessionDuration} :
       /\ now + w <= ClockEnd
       /\ w = 1 => now % SessionDuration < MaxMillis
       /\ now' = now + w
  /\ UNCHANGED <<medium, mediumPrev, mediumMode, storageState, stCall,
                 cartVars, busVars, extVars>>

SessionNext ==
  \/ GetOrCreateSessionId \/ ApiGetSessionIdCall
  \/ HandlerGetOrCreateSessionIdCall \/ ClockAdvances

TwentyFourHours == 24 * 60 * 60 * 1000

\* The cache entry of the session token, as stored
SessionEntry == Parse(medium[getKey(sessionKey)])

SessionPersisted(token, t) ==
  /\ getKey(sessionKey) \in DOMAIN medium
  /\ Parse(SessionEntry.value) = token
  /\ SessionEntry.expires = t + TwentyFourHours

\* C14: with no stored token, get-or-create returns a new non-empty token
\* and stores it with a 24-hour TTL; until the TTL has elapsed every call
\* returns that token and generates none; the first call after it has
\* elapsed returns a newly generated token.
C14_GetOrCreateSession ==
  sessCall.by # "-" =>
    /\ ~NoSessionId(sessCall.returned)
    /\ LET prev == sessCall.before IN
       IF prev.token = Null \/ sessCall.at > prev.at + TwentyFourHours
       THEN /\ sessCall.fresh
            /\ sessCall.returned # prev.token
            /\ SessionPersisted(sessCall.returned, sessCall.at)
       ELSE /\ ~sessCall.fresh
            /\ sessCall.returned = prev.token

\* A second token was generated by the first call after the first token's
\* 24 hours, the calls before having returned the first token.
C14_Witness ==
  /\ sessCall.fresh
  /\ sessCall.before.token = "session_1"
  /\ sessCall.returned = "session_2"
  /\ sessCall.at > sessCall.before.at + TwentyFourHours

\* The token was asked for at the last instant of its 24 hours.
C14_LastInstant ==
  ~(/\ sessCall.by # "-"
    /\ ~sessCall.fresh
    /\ sessCall.at = sessCall.before.at + TwentyFourHours)

(***************************************************************************)
(* The synchronization layer: the use cases between the page, the remote   *)
(* cart service (CartAPI over ApiClient) and the cache (CartStorage).      *)
(*                                                                         *)
(* execute() is an async function: it runs up to its await (validation,    *)
(* then the request is built and sent) in one step and continues when the  *)
(* response or the failure arrives, in another.  The events a use case     *)
(* publishes are recorded in the order of the publish calls.               *)
(***************************************************************************)
MaxInflight == 1   \* remote calls awaiting their response at most
MaxServerQty == 2  \* the remote cart is empty or holds this many of one product
MaxSyncDays == 1   \* the page stays open over this many session expiries

UseCases == {"GetCart", "AddItem", "RemoveItem", "UpdateQuantity", "ClearCart"}
Mutations == UseCases \ {"GetCart"}

\* JavaScript values passed as a quantity: a number (kept as twice its
\* value, so that halves are numbers too), NaN or a non-numeric string, or
\* undefined.
Num(n) == [kind |-> "number", twice |-> 2 * n]
Half(n) == [kind |-> "number", twice |-> n]
NaN == [kind |-> "NaN", twice |-> 0]
Undefined == [kind |-> "undefined", twice |-> 0]

\* q < n and q > n in JavaScript: false when q is NaN or undefined
LessThan(q, n) == q.kind = "number" /\ q.twice < 2 * n
GreaterThan(q, n) == q.kind = "number" /\ q.twice > 2 * n

\* async execute(sessionId, productId, quantity = 1)
DefaultQuantity(q) == IF q.kind = "undefined" THEN Num(1) ELSE q

\* The quantities, ids and session ids callers pass.
Quantities ==
  {Undefined, NaN, Num(0), Half(1), Num(1), Half(3), Num(100), Half(201), Num(101)}
ValidQuantities == {Num(2)}
ProductArgs == {"", "p1"}
ItemArgs == {"", "i1"}

NoError == ""

\* if (quantity < 1 || quantity > 100) throw ...
QuantityCheck(quantity) ==
  IF LessThan(quantity, 1) \/ GreaterThan(quantity, 100)
  THEN "Quantity must be between 1 and 100" ELSE NoError

ValidateLenient(op, sessionId, id, quantity) ==
  IF NoSessionId(sessionId) THEN "Session ID is required"
  ELSE IF op = "AddItem" /\ id = "" THEN "Product ID is required"
  ELSE IF op \in {"RemoveItem", "UpdateQuantity"} /\ id = "" THEN "Item ID is required"
  ELSE IF op = "AddItem" THEN QuantityCheck(quantity)
  ELSE NoError

\* The checks at the head of execute(), in the order of the code: the
\* message of the Error thrown, NoError when the call goes on.
Validate(op, sessionId, id, quantity) ==
  IF NoSessionId(sessionId) THEN "Session ID is required"
  ELSE IF op = "AddItem" /\ id = "" THEN "Product ID is required"
  ELSE IF op \in {"RemoveItem", "UpdateQuantity"} /\ id = "" THEN "Item ID is required"
  ELSE IF op \in {"AddItem", "UpdateQuantity"} THEN QuantityCheck(quantity)
  ELSE NoError

\* The CartAPI method a use case calls: HTTP method and endpoint
Method ==
  [op \in UseCases \cup {"handleAddItem"} |->
     CASE op = "GetCart" -> "GET"
       [] op \in {"AddItem", "handleAddItem"} -> "POST"
       [] op = "UpdateQuantity" -> "PUT"
       [] OTHER -> "DELETE"]
Endpoint ==
  [op \in UseCases \cup {"handleAddItem"} |->
     CASE op \in {"GetCart", "ClearCart"} -> "/cart"
       [] op \in {"AddItem", "handleAddItem"} -> "/cart/items"
       [] OTHER -> "/cart/items/{itemId}"]

\* ApiClient.buildUrl: for a cart endpoint params.session_id is set to
\* this.getSessionId(), whatever the caller put there; `stored` is the
\* token getSessionId returned.  The body of POST /cart/items carries the
\* session id the caller passed.
Request(op, sessionId, id, quantity, stored) ==
  [op |-> op, method |-> Method[op], path |-> Endpoint[op],
   sessionId |-> sessionId, query |-> stored,
   body |-> IF Method[op] = "POST" THEN sessionId ELSE NoArg,
   id |-> id, quantity |-> quantity]

NoRequest == Request("GetCart", NoArg, NoArg, Undefined, NoArg)

\* The JSON of a cart, as the remote service sends it and as toJSON gives it
CartJson(session, q) ==
  [id |-> "cart_1", session_id |-> session,
   items |-> IF q = 0 THEN <<>>
             ELSE <<[id |-> "i1", product_id |-> "p1", quantity |-> q,
                     price_at_add |-> 1, currency |-> "EUR", subtotal |-> q]>>,
   total |-> q, item_count |-> q]

\* null where cart data is expected
NoData == CartJson(Null, 0)

\* What a call resolves to: a Cart entity (kept as its toJSON), the plain
\* object read from the cache, or nothing when it rejects.
Result(kind, data) == [kind |-> kind, data |-> data]
NoResult == Result("none", NoData)

NoEntry == [value |-> Stringify(NoData), expires |-> NullNum]

\* An effect of a use case: a cache write or a published event, with the
\* item count it carries.
Effect(kind, name, count) == [kind |-> kind, name |-> name, count |-> count]

Step(kind, req, sessionId, stored, outcome, status, effects, result, response, entry, error) ==
  [kind |-> kind, n |-> IF kind = "rejected" THEN 1 - last.n ELSE 0,
   req |-> req, sessionId |-> sessionId,
   stored |-> stored, outcome |-> outcome, status |-> status,
   effects |-> effects, result |-> result, response |-> response,
   entry |-> entry, at |-> IF kind = "done" THEN now ELSE 0, error |-> error]

SyncInit ==
  /\ clients = [controller |-> Null, handler |-> Null]
  /\ inflight = <<>>
  /\ last = [kind |-> "-", n |-> 0, req |-> NoRequest, sessionId |-> NoArg,
             stored |-> NoArg, outcome |-> "-", status |-> NullNum,
             effects |-> <<>>, result |-> NoResult, response |-> NoData,
             entry |-> NoEntry, at |-> 0, error |-> NoError]

\* What the continuation of execute() leaves: the cache, how the call
\* ended, its effects in order, what it resolved to, the Error's context.
Done(md, outcome, effects, result, error) ==
  [medium |-> md, outcome |-> outcome, effects |-> effects, result |-> result,
   error |-> error]

KeptCart(md, mode, t, cartEntity) ==
  IF Stored(md, cartStorageKey) THEN md
  ELSE saveCart(md, mode, t, toJSON(cartEntity)).medium

\* this.cartStorage.saveCart(cart): cart.toJSON() is what is stored
SavedCart(md, mode, t, cartEntity) == saveCart(md, mode, t, toJSON(cartEntity)).medium

\* CartStorage.getCart for the cart entry: the stored object, or null
getCartSnapshot(md, mode, t) ==
  CatchReturning(StorageGet(md, mode, t, cartStorageKey, NoData), NoData, FALSE, {})

AddItemEventsFirst(md, mode, t, data) ==
  LET cartEntity == fromAPI(data) IN
  Done(SavedCart(md, mode, t, cartEntity), "ok",
       <<Effect("event", "cart:item-added", cartEntity.itemCount),
         Effect("event", "cart:count-updated", cartEntity.itemCount),
         Effect("cache", cartStorageKey, cartEntity.itemCount)>>,
       Result("Cart", toJSON(cartEntity)), NoError)

\* AddItemUseCase.execute after the response: fromAPI, saveCart, publish
\* cart:item-added, publish cart:count-updated, return cart
AddItemOnResponse(md, mode, t, data) ==
  LET cartEntity == fromAPI(data) IN
  Done(SavedCart(md, mode, t, cartEntity), "ok",
       <<Effect("cache", cartStorageKey, cartEntity.itemCount),
         Effect("event", "cart:item-added", cartEntity.itemCount),
         Effect("event", "cart:count-updated", cartEntity.itemCount)>>,
       Result("Cart", toJSON(cartEntity)), NoError)

\* RemoveItemUseCase.execute after the response
RemoveItemOnResponse(md, mode, t, data) ==
  LET cartEntity == fromAPI(data) IN
  Done(SavedCart(md, mode, t, cartEntity), "ok",
       <<Effect("cache", cartStorageKey, cartEntity.itemCount),
         Effect("event", "cart:item-removed", cartEntity.itemCount),
         Effect("event", "cart:count-updated", cartEntity.itemCount)>>,
       Result("Cart", toJSON(cartEntity)), NoError)

\* UpdateQuantityUseCase.execute after the response
UpdateQuantityOnResponse(md, mode, t, data) ==
  LET cartEntity == fromAPI(data) IN
  Done(SavedCart(md, mode, t, cartEntity), "ok",
       <<Effect("cache", cartStorageKey, cartEntity.itemCount),
         Effect("event", "cart:quantity-changed", cartEntity.itemCount),
         Effect("event", "cart:count-updated", cartEntity.itemCount)>>,
       Result("Cart", toJSON(cartEntity)), NoError)

ClearCartOnlyClearing(md, mode, t, data) ==
  LET cartEntity == fromAPI(data) IN
  Done(md, "ok",
       <<Effect("event", "cart:cleared", 0)>>,
       Result("Cart", toJSON(cartEntity)), NoError)

\* ClearCartUseCase.execute after the response: both events carry the
\* literal 0
ClearCartOnResponse(md, mode, t, data) ==
  LET cartEntity == fromAPI(data) IN
  Done(SavedCart(md, mode, t, cartEntity), "ok",
       <<Effect("cache", cartStorageKey, cartEntity.itemCount),
         Effect("event", "cart:cleared", 0),
         Effect("event", "cart:count-updated", 0)>>,
       Result("Cart", toJSON(cartEntity)), NoError)

GetCartPublishing(md, mode, t, data) ==
  LET cartEntity == fromAPI(data) IN
  Done(SavedCart(md, mode, t, cartEntity), "ok",
       <<Effect("cache", cartStorageKey, cartEntity.itemCount),
         Effect("event", "cart:count-updated", cartEntity.itemCount)>>,
       Result("Cart", toJSON(cartEntity)), NoError)

\* GetCartUseCase.execute after the response: fromAPI, saveCart, return
\* cart; the use case has no event bus
GetCartOnResponse(md, mode, t, data) ==
  LET cartEntity == fromAPI(data) IN
  Done(SavedCart(md, mode, t, cartEntity), "ok",
       <<Effect("cache", cartStorageKey, cartEntity.itemCount)>>,
       Result("Cart", toJSON(cartEntity)), NoError)

\* catch (error) { throw new Error(`Failed to ...: ${error.message}`) } of
\* the four mutating use cases
MutationOnFailure(op, md) ==
  Done(md, "failed", <<>>, NoResult,
       CASE op = "AddItem" -> "Failed to add item to cart"
         [] op = "RemoveItem" -> "Failed to remove item from cart"
         [] op = "UpdateQuantity" -> "Failed to update item quantity"
         [] OTHER -> "Failed to clear cart")

GetCartRaising(md, mode, t) ==
  Done(md, "failed", <<>>, NoResult, "Failed to get cart")

\* GetCartUseCase.execute, catch: return the cached cart if there is one,
\* else throw
GetCartOnFailure(md, mode, t) ==
  LET cached == getCartSnapshot(md, mode, t) IN
  IF cached.value # NoData
  THEN Done(cached.medium, "fallback", <<>>, Result("Object", cached.value), NoError)
  ELSE Done(cached.medium, "failed", <<>>, NoResult, "Failed to get cart")

OnResponse(op, md, mode, t, data) ==
  CASE op = "GetCart" -> GetCartOnResponse(md, mode, t, data)
    [] op = "AddItem" -> AddItemOnResponse(md, mode, t, data)
    [] op = "RemoveItem" -> RemoveItemOnResponse(md, mode, t, data)
    [] op = "UpdateQuantity" -> UpdateQuantityOnResponse(md, mode, t, data)
    [] OTHER -> ClearCartOnResponse(md, mode, t, data)

OnFailure(op, md, mode, t) ==
  IF op = "GetCart" THEN GetCartOnFailure(md, mode, t)
  ELSE MutationOnFailure(op, md)

\* A component other than the session provider asks for the token.
UsedSession(r) ==
  /\ medium' = r.medium
  /\ generated' = r.generated
  /\ UNCHANGED <<issued, sessCall>>

\* The cart entry of the cache as stored, NoEntry when there is none
CartEntry(md) ==
  IF Stored(md, cartStorageKey) THEN EntryOf(md, cartStorageKey) ELSE NoEntry

\* The session ids the page's components hold
HeldSessions == {clients.controller, clients.handler} \ {Null}

\* this.sessionId of the CartController, which calls the use cases
ControllerSession == {clients.controller} \ {Null}

\* new CartController(): this.sessionId = cartStorage.getOrCreateSessionId()
NewController ==
  /\ generated < MaxTokens
  /\ LET r == getOrCreateSessionId(medium, mediumMode, now, generated) IN
       /\ UsedSession(r)
       /\ clients' = [clients EXCEPT !.controller = r.value]
  /\ UNCHANGED <<mediumPrev, mediumMode, now, storageState, stCall, inflight, last,
                 cartVars, busVars, handleVars, once, pageVars>>

\* new CartHandler(): this.sessionId = this.getOrCreateSessionId()
NewHandler ==
  /\ generated < MaxTokens
  /\ LET r == HandlerGetOrCreateSessionId(medium, mediumMode, now, generated) IN
       /\ UsedSession(r)
       /\ clients' = [clients EXCEPT !.handler = r.value]
  /\ UNCHANGED <<mediumPrev, mediumMode, now, storageState, stCall, inflight, last,
                 cartVars, busVars, handleVars, once, pageVars>>

\* execute(sessionId, id, quantity) up to its await: the checks, then
\* CartAPI builds the request (ApiClient.buildUrl asks for the session
\* token) and sends it.
Execute(op, sessionId, id, quantity) ==
  LET error == Validate(op, sessionId, id, quantity) IN
  IF error # NoError
  THEN /\ last' = Step("rejected", Request(op, sessionId, id, quantity, NoArg),
                        sessionId, NoArg, "validation", NullNum, <<>>, NoResult,
                        NoData, NoEntry, error)
       /\ UNCHANGED <<medium, sessionVars, inflight>>
  ELSE LET r == ApiGetSessionId(medium, mediumMode, now, generated)
           req == Request(op, sessionId, id, quantity, r.value) IN
       /\ Len(inflight) < MaxInflight
       /\ r.generated <= MaxTokens
       /\ UsedSession(r)
       /\ inflight' = Append(inflight, req)
       /\ last' = Step("sent", req, sessionId, r.value, "-", NullNum, <<>>,
                       NoResult, NoData, NoEntry, NoError)

SyncFrame ==
  UNCHANGED <<mediumPrev, mediumMode, now, storageState, stCall, clients,
              cartVars, busVars, handleVars, once, pageVars>>

GetCartCall(Sessions) ==
  /\ \E sessionId \in Sessions :
       Execute("GetCart", sessionId, NoArg, Undefined)
  /\ SyncFrame

AddItemCall(Sessions, ProductIds, Qs) ==
  /\ \E sessionId \in Sessions, productId \in ProductIds, quantity \in Qs :
       Execute("AddItem", sessionId, productId, DefaultQuantity(quantity))
  /\ SyncFrame

RemoveItemCall(Sessions, ItemIds_) ==
  /\ \E sessionId \in Sessions, itemId \in ItemIds_ :
       Execute("RemoveItem", sessionId, itemId, Undefined)
  /\ SyncFrame

UpdateQuantityCall(Sessions, ItemIds_, Qs) ==
  /\ \E sessionId \in Sessions, itemId \in ItemIds_, quantity \in Qs :
       Execute("UpdateQuantity", sessionId, itemId, quantity)
  /\ SyncFrame

ClearCartCall(Sessions) ==
  /\ \E sessionId \in Sessions :
       Execute("ClearCart", sessionId, NoArg, Undefined)
  /\ SyncFrame

\* The use cases called the way CartController calls them: with the
\* session id a component holds, an item of the cart and a quantity in range
GetCartExecute == GetCartCall(ControllerSession)
AddItemExecute == AddItemCall(ControllerSession, {"p1"}, ValidQuantities \cup {Undefined})
RemoveItemExecute == RemoveItemCall(ControllerSession, {"i1"})
UpdateQuantityExecute == UpdateQuantityCall(ControllerSession, {"i1"}, ValidQuantities)
ClearCartExecute == ClearCartCall(ControllerSession)

\* The use cases called with any arguments
GetCartAnyArgs == GetCartCall(ControllerSession \cup {""})
AddItemAnyArgs == AddItemCall(ControllerSession \cup {""}, ProductArgs, Quantities)
RemoveItemAnyArgs == RemoveItemCall(ControllerSession \cup {""}, ItemArgs)
UpdateQuantityAnyArgs == UpdateQuantityCall(ControllerSession \cup {""}, ItemArgs, Quantities)
ClearCartAnyArgs == ClearCartCall(ControllerSession \cup {""})

\* CartHandler.handleAddItem up to its await: api.post('/cart/items',
\* {session_id: this.sessionId, product_id, quantity: data.quantity || 1})
HandlerPostsAddItem ==
  /\ clients.handler # Null
  /\ LET r == ApiGetSessionId(medium, mediumMode, now, generated)
         req == Request("handleAddItem", clients.handler, "p1", Num(1), r.value) IN
       /\ r.generated <= MaxTokens
       /\ UsedSession(r)
       /\ last' = Step("sent", req, clients.handler, r.value, "-", NullNum, <<>>,
                       NoResult, NoData, NoEntry, NoError)
  /\ UNCHANGED inflight
  /\ SyncFrame

RemoveAt(seq, i) == SubSeq(seq, 1, i - 1) \o SubSeq(seq, i + 1, Len(seq))

\* The session a request is for: the body's for POST /cart/items, the
\* query string's otherwise
SessionOf(req) == IF req.method = "POST" THEN req.body ELSE req.query

\* The carts the remote service may answer with: DELETE /cart answers with
\* the empty cart.
Responses(req) ==
  {CartJson(SessionOf(req), q) :
     q \in IF req.op = "ClearCart" THEN {0} ELSE {0, MaxServerQty}}

\* ApiError statuses: network failure, client timeout, server error
Statuses == {0, 408, 500}

\* A response arrives and execute() continues after its await.
RemoteResponds ==
  /\ \E i \in 1..Len(inflight) : \E data \in Responses(inflight[i]) :
       LET req == inflight[i]
           d == OnResponse(req.op, medium, mediumMode, now, data) IN
       /\ medium' = d.medium
       /\ inflight' = RemoveAt(inflight, i)
       /\ last' = Step("done", req, NoArg, NoArg, d.outcome, NullNum, d.effects,
                       d.result, data, CartEntry(medium), d.error)
  /\ UNCHANGED sessionVars
  /\ SyncFrame

\* The remote call fails (ApiError) and execute() continues in its catch.
RemoteFails ==
  /\ \E i \in 1..Len(inflight), status \in Statuses :
       LET req == inflight[i]
           d == OnFailure(req.op, medium, mediumMode, now) IN
       /\ medium' = d.medium
       /\ inflight' = RemoveAt(inflight, i)
       /\ last' = Step("done", req, NoArg, NoArg, d.outcome, status, d.effects,
                       d.result, NoData, CartEntry(medium), d.error)
  /\ UNCHANGED sessionVars
  /\ SyncFrame

\* More than a session duration passes.
DayPasses ==
  /\ now + SessionDuration + 1 <= MaxSyncDays * (SessionDuration + 1)
  /\ now' = now + SessionDuration + 1
  /\ UNCHANGED <<medium, mediumPrev, mediumMode, storageState, stCall,
                 cartVars, busVars, extVars>>

ValidationNext ==
  \/ NewController
  \/ GetCartAnyArgs \/ AddItemAnyArgs \/ RemoveItemAnyArgs
  \/ UpdateQuantityAnyArgs \/ ClearCartAnyArgs
  \/ RemoteResponds \/ RemoteFails

SyncNext ==
  \/ NewController \/ DayPasses
  \/ GetCartExecute \/ AddItemExecute \/ RemoveItemExecute
  \/ UpdateQuantityExecute \/ ClearCartExecute
  \/ RemoteResponds \/ RemoteFails

\* GetCart over session expiries, the clock moving by milliseconds too
ReturnsNext ==
  \/ NewController \/ GetCartExecute \/ RemoteResponds \/ RemoteFails
  \/ ClockAdvances

\* A page with a CartController and a CartHandler
HandlerNext ==
  \/ NewController \/ NewHandler \/ DayPasses
  \/ GetCartExecute \/ AddItemExecute \/ HandlerPostsAddItem
  \/ RemoteResponds \/ RemoteFails

(***************************************************************************)
(* The cart page: CartController and CartHandler against the remote cart.  *)
(*                                                                         *)
(* A method of the controller or of the handler runs up to its await in    *)
(* one step; the remote service handles the request in another, and the    *)
(* method continues when the response or the failure arrives, in a third.  *)
(* Requests are handled, and responses arrive, in any order.  The remote   *)
(* service keeps one cart for the session, with at most one product.       *)
(***************************************************************************)
MaxOverlap == 2   \* user actions pending at once on a page that overlaps them

PageMethods ==
  {"loadCart", "updateQuantity", "removeItem", "clearCart",
   "handleAddItem", "loadAndPublishCart", "publishCartCount"}

\* The use case or request behind a method
OpOf ==
  [by \in PageMethods |->
     CASE by = "updateQuantity" -> "UpdateQuantity"
       [] by = "removeItem" -> "RemoveItem"
       [] by = "clearCart" -> "ClearCart"
       [] by = "handleAddItem" -> "handleAddItem"
       [] OTHER -> "GetCart"]

ControllerMethods == {"loadCart", "updateQuantity", "removeItem", "clearCart"}

\* A request awaiting its response: who awaits it, and the answer of the
\* remote service once it has handled the request
Awaiting(by, req) == [by |-> by, req |-> req, answer |-> "none", data |-> NoData]

\* The remote cart service: the cart after the request and the answer
\* (GET /cart, POST /cart/items, PUT and DELETE /cart/items/{itemId},
\* DELETE /cart).  An item that is not in the cart is rejected.
Remote(req, q) ==
  CASE req.method = "GET" -> [answer |-> "ok", q |-> q]
    [] req.method = "POST" -> [answer |-> "ok", q |-> q + (req.quantity.twice \div 2)]
    [] req.method = "PUT" ->
         IF q = 0 THEN [answer |-> "rejected", q |-> q]
         ELSE [answer |-> "ok", q |-> req.quantity.twice \div 2]
    [] req.path = "/cart" -> [answer |-> "ok", q |-> 0]
    [] OTHER ->
         IF q = 0 THEN [answer |-> "rejected", q |-> q]
         ELSE [answer |-> "ok", q |-> 0]

\* CartHandler.calculateCartCount
RECURSIVE SumQuantities(_)
SumQuantities(items) ==
  IF items = <<>> THEN 0
  ELSE Head(items).quantity + SumQuantities(Tail(items))
calculateCartCount(cartData) ==
  IF cartData = NoData THEN 0 ELSE SumQuantities(cartData.items)

\* CartController.render: this.cart.isEmpty() is called on whatever
\* this.cart holds; the object read from the cache has no such method
renderThrows(held) == held.kind = "Object"

\* What a continuation leaves: the cache, this.cart, the count published
\* last, the effects in order, how the call ended and the methods it called
\* that send a request of their own.
Cont(d, held, count, listening, calls) ==
  [medium |-> d.medium, outcome |-> d.outcome, effects |-> d.effects,
   result |-> d.result, error |-> d.error, cart |-> held, count |-> count,
   listening |-> listening, calls |-> calls]

CountOf(effects, count) ==
  IF effects # <<>> /\ effects[Len(effects)].name = "cart:count-updated"
  THEN effects[Len(effects)].count ELSE count

\* loadCart after the response: this.cart = cart; this.render()
loadCartOnResponse(md, mode, t, data, pg) ==
  LET d == GetCartOnResponse(md, mode, t, data) IN
  Cont(d, d.result, pg.count, TRUE, <<>>)

\* loadCart when the request failed: the use case returns the cached
\* object or throws; render() of the cached object throws, and the catch
\* sets this.cart = null
loadCartOnFailure(md, mode, t, pg) ==
  LET d == GetCartOnFailure(md, mode, t) IN
  Cont(d, IF d.outcome = "fallback" /\ ~renderThrows(d.result)
          THEN d.result ELSE NoResult,
       pg.count, TRUE, <<>>)

mutationKeepingCart(op, md, mode, t, data, pg) ==
  LET d == OnResponse(op, md, mode, t, data) IN
  Cont(d, pg.cart, CountOf(d.effects, pg.count), pg.listening, <<>>)

\* updateQuantity, removeItem, clearCart after the response:
\* this.cart = await useCase.execute(...); this.render()
mutationOnResponse(op, md, mode, t, data, pg) ==
  LET d == OnResponse(op, md, mode, t, data) IN
  Cont(d, d.result, CountOf(d.effects, pg.count), pg.listening, <<>>)

mutationOnFailureClearing(op, md, pg) ==
  Cont(MutationOnFailure(op, md), NoResult, pg.count, pg.listening, <<>>)

\* updateQuantity, removeItem, clearCart when the use case threw:
\* console.error, nothing else
mutationOnFailure(op, md, pg) ==
  Cont(MutationOnFailure(op, md), pg.cart, pg.count, pg.listening, <<>>)

\* handleAddItem after the response: publish cart:item-added and
\* cart:request-update (its subscribers are the handler's
\* loadAndPublishCart and, once initialize() has subscribed it, the
\* controller's loadCart), then this.publishCartCount()
handleAddItemOnResponse(md, data, pg) ==
  Cont(Done(md, "ok",
            <<Effect("event", "cart:item-added", NullNum),
              Effect("event", "cart:request-update", NullNum)>>,
            Result("Object", data), NoError),
       pg.cart, pg.count, pg.listening,
       <<"loadAndPublishCart">>
         \o (IF pg.listening THEN <<"loadCart">> ELSE <<>>)
         \o <<"publishCartCount">>)

\* loadAndPublishCart after the response: publish cart:updated, then
\* this.publishCartCount()
loadAndPublishCartOnResponse(md, data, pg) ==
  Cont(Done(md, "ok", <<Effect("event", "cart:updated", NullNum)>>,
            Result("Object", data), NoError),
       pg.cart, pg.count, pg.listening, <<"publishCartCount">>)

\* handleAddItem and loadAndPublishCart, catch: console.error (and a toast)
handlerOnFailure(md, pg) ==
  Cont(Done(md, "failed", <<>>, NoResult, NoError),
       pg.cart, pg.count, pg.listening, <<>>)

\* publishCartCount after the response
publishCartCountOnResponse(md, data, pg) ==
  LET count == calculateCartCount(data) IN
  Cont(Done(md, "ok", <<Effect("event", "cart:count-updated", count)>>,
            Result("Object", data), NoError),
       pg.cart, count, pg.listening, <<>>)

publishCartCountKeeping(md, pg) ==
  Cont(Done(md, "failed",
            IF pg.count = NullNum THEN <<>>
            ELSE <<Effect("event", "cart:count-updated", pg.count)>>,
            NoResult, NoError),
       pg.cart, pg.count, pg.listening, <<>>)

\* publishCartCount, catch: publish cart:count-updated with count 0
publishCartCountOnFailure(md, pg) ==
  Cont(Done(md, "failed", <<Effect("event", "cart:count-updated", 0)>>,
            NoResult, NoError),
       pg.cart, 0, pg.listening, <<>>)

PageOnResponse(by, md, mode, t, data, pg) ==
  CASE by = "loadCart" -> loadCartOnResponse(md, mode, t, data, pg)
    [] by \in {"updateQuantity", "removeItem", "clearCart"} ->
         mutationOnResponse(OpOf[by], md, mode, t, data, pg)
    [] by = "handleAddItem" -> handleAddItemOnResponse(md, data, pg)
    [] by = "loadAndPublishCart" -> loadAndPublishCartOnResponse(md, data, pg)
    [] OTHER -> publishCartCountOnResponse(md, data, pg)

PageOnFailure(by, md, mode, t, pg) ==
  CASE by = "loadCart" -> loadCartOnFailure(md, mode, t, pg)
    [] by \in {"updateQuantity", "removeItem", "clearCart"} ->
         mutationOnFailure(OpOf[by], md, pg)
    [] by = "publishCartCount" -> publishCartCountOnFailure(md, pg)
    [] OTHER -> handlerOnFailure(md, pg)

\* The session token the cache holds, which buildUrl puts in the query
StoredToken == ApiGetSessionId(medium, mediumMode, now, generated).value

\* this.sessionId of the component a method belongs to
HolderOf(by) ==
  IF by \in ControllerMethods THEN clients.controller ELSE clients.handler

\* The request a method sends
Sends(by, id, quantity) ==
  Awaiting(by, Request(OpOf[by], HolderOf(by), id, quantity, StoredToken))

RECURSIVE SendAll(_)
SendAll(calls) ==
  IF calls = <<>> THEN <<>>
  ELSE <<Sends(Head(calls), NoArg, Undefined)>> \o SendAll(Tail(calls))

\* The page's components exist and the cache holds their token: no request
\* of the page generates a token.
PageOpen(by) ==
  /\ HolderOf(by) # Null
  /\ ApiGetSessionId(medium, mediumMode, now, generated).generated = generated
  /\ ApiGetSessionId(medium, mediumMode, now, generated).medium = medium

PageFrame ==
  UNCHANGED <<mediumPrev, mediumMode, now, storageState, stCall, clients,
              cartVars, busVars, handleVars, once, sessionVars, api>>

\* A method called by the user or by another page component sends its
\* request.
Called(by, id, quantity) ==
  /\ PageOpen(by)
  /\ Len(inflight) < page.limit
  /\ inflight' = Append(inflight, Sends(by, id, quantity))
  /\ last' = Step("sent", Sends(by, id, quantity).req, HolderOf(by), StoredToken,
                  "-", NullNum, <<>>, NoResult, NoData, NoEntry, NoError)
  /\ page' = [page EXCEPT !.by = by]
  /\ UNCHANGED <<medium, server>>
  /\ PageFrame

\* The item of the cart the page shows
ShownQuantity ==
  IF page.cart.kind = "none" \/ page.cart.data.items = <<>> THEN 0
  ELSE page.cart.data.items[1].quantity

\* CartController.loadCart, from initialize() or on cart:request-update
LoadCart == Called("loadCart", NoArg, Undefined)

\* CartController.changeQuantity(itemId, delta) for the + and - buttons of
\* a shown item: removeItem below 1, updateQuantity up to 100
ChangeQuantity ==
  /\ ShownQuantity > 0
  /\ \E delta \in {-1, 1} :
       LET newQuantity == ShownQuantity + delta IN
       IF newQuantity < 1 THEN Called("removeItem", "i1", Undefined)
       ELSE /\ newQuantity <= MaxServerQty
            /\ Called("updateQuantity", "i1", Num(newQuantity))

\* CartController.removeItem for the remove button of a shown item
RemoveShownItem ==
  /\ ShownQuantity > 0
  /\ Called("removeItem", "i1", Undefined)

\* CartController.clearCart for the clear button
ClearShownCart == Called("clearCart", NoArg, Undefined)

\* CartHandler.handleAddItem on cart:add-item {productId}
HandleAddItem == Called("handleAddItem", "p1", Num(1))

\* CartHandler.publishCartCount, from initialize() or on cart:request-count
PublishCartCount == Called("publishCartCount", NoArg, Undefined)

\* CartHandler.loadAndPublishCart on cart:request-update
LoadAndPublishCart == Called("loadAndPublishCart", NoArg, Undefined)

\* The remote service handles a request.
RemoteHandles ==
  /\ \E i \in 1..Len(inflight) :
       LET a == inflight[i]
           r == Remote(a.req, server) IN
       /\ a.answer = "none"
       /\ r.q <= MaxServerQty
       /\ server' = r.q
       /\ inflight' = [inflight EXCEPT ![i] =
                         [a EXCEPT !.answer = r.answer,
                                   !.data = IF r.answer = "ok"
                                            THEN CartJson(a.req.query, r.q)
                                            ELSE NoData]]
  /\ UNCHANGED <<medium, last, page>>
  /\ PageFrame

Continue(i, c, status, data, entry) ==
  /\ medium' = c.medium
  /\ inflight' = RemoveAt(inflight, i) \o SendAll(c.calls)
  /\ last' = Step("done", inflight[i].req, NoArg, NoArg, c.outcome, status,
                  c.effects, c.result, data, entry, c.error)
  /\ page' = [page EXCEPT !.cart = c.cart, !.count = c.count,
                          !.listening = c.listening, !.by = inflight[i].by,
                          !.failures = @ \/ status # NullNum]
  /\ UNCHANGED server
  /\ PageFrame

\* The response arrives and the method continues after its await.
ResponseArrives ==
  \E i \in 1..Len(inflight) :
    /\ inflight[i].answer = "ok"
    /\ Continue(i, PageOnResponse(inflight[i].by, medium, mediumMode, now,
                                  inflight[i].data, page),
                NullNum, inflight[i].data, CartEntry(medium))

\* The request fails (the remote service rejected it, the network failed
\* or the timeout elapsed, also after the service has handled it) and the
\* method continues in its catch.
RequestFails ==
  \E i \in 1..Len(inflight), status \in Statuses :
    /\ inflight[i].answer = "rejected" => status = 500
    /\ Continue(i, PageOnFailure(inflight[i].by, medium, mediumMode, now, page),
                status, NoData, CartEntry(medium))

\* The cart page with its controller.
ControllerNext ==
  \/ NewController \/ LoadCart \/ ChangeQuantity \/ RemoveShownItem
  \/ ClearShownCart \/ RemoteHandles \/ ResponseArrives \/ RequestFails

\* A page with the cart handler.
CartHandlerNext ==
  \/ NewHandler \/ HandleAddItem \/ PublishCartCount \/ LoadAndPublishCart
  \/ RemoteHandles \/ ResponseArrives \/ RequestFails

\* The cart page when the user acts again before the response.
OverlapNext ==
  \/ NewController \/ LoadCart \/ ChangeQuantity
  \/ RemoveShownItem \/ ClearShownCart
  \/ RemoteHandles \/ ResponseArrives \/ RequestFails

(***************************************************************************)
(* ApiClient.request                                                       *)
(*                                                                         *)
(* One call at a time: request() builds the URL, starts the abort timer    *)
(* and awaits fetch; a 2xx response with a JSON content type is then read  *)
(* (await response.json()).  The timer set by createTimeoutController runs *)
(* when it is due, and time does not pass that instant before it has run.  *)
(***************************************************************************)
MaxApiCalls == 2       \* calls of request() made at most
MaxCustomTimeout == 2  \* options.timeout is left out or in 0..MaxCustomTimeout

apiTimeout == 10000

ApiEndpoints == {"/cart", "/products"}
HttpStatuses == {200, 204, 404, 500}
ContentTypes == {"application/json", "text/html", "none"}
ErrorNames == {"AbortError", "TypeError", "SyntaxError"}

\* response.ok
Ok(status) == status >= 200 /\ status <= 299

\* buildUrl: the endpoint and, for a cart endpoint, the session_id parameter
buildUrl(endpoint, sessionId) ==
  [endpoint |-> endpoint,
   session_id |-> IF endpoint = "/cart" THEN sessionId ELSE NoArg]

\* const timeout = customTimeout || this.timeout
createTimeoutController(customTimeout) ==
  IF Truthy(customTimeout) THEN customTimeout ELSE apiTimeout

\* new ApiError(status, message, url)
ApiError(status, message, url) ==
  [kind |-> "ApiError", status |-> status, message |-> message, url |-> url]

\* What request() resolves to: the parsed body, or null
Parsed(kind, url) == [kind |-> kind, status |-> 200, message |-> "", url |-> url]
NoOutcomeYet == [kind |-> "-", status |-> NullNum, message |-> "",
                 url |-> buildUrl("/products", NoArg)]

catchAll(name, message, url) == ApiError(0, message, url)

\* The catch block of request() for an error that is not an ApiError:
\* AbortError becomes 408, anything else 0
catch(name, message, url) ==
  IF name = "AbortError" THEN ApiError(408, "Request timeout", url)
  ELSE ApiError(0, message, url)

ApiInit ==
  api = [n |-> 0, phase |-> "idle", url |-> buildUrl("/products", NoArg),
         timeout |-> apiTimeout, started |-> 0, timer |-> "none",
         outcome |-> NoOutcomeYet, outcomes |-> 0, cause |-> "-"]

PageInit ==
  /\ ApiInit
  /\ server = 0
  /\ page = [cart |-> NoResult, count |-> NullNum, listening |-> FALSE,
             by |-> "-", failures |-> FALSE, limit |-> MaxInflight]

CallPending == api.phase \in {"fetching", "reading"}

Deadline == api.started + api.timeout

ApiFrame ==
  UNCHANGED <<mediumPrev, mediumMode, storageState, stCall, cartVars, busVars,
              handleVars, once, issued, sessCall, syncVars, server, page>>

\* The call ends with this outcome.
Settle(phase, outcome, cause) ==
  api' = [api EXCEPT !.phase = phase, !.outcome = outcome,
                     !.outcomes = @ + 1, !.cause = cause]

\* request(endpoint, options) up to await fetch(url, requestOptions)
ApiRequest ==
  /\ ~CallPending
  /\ api.n < MaxApiCalls
  /\ \E endpoint \in ApiEndpoints, customTimeout \in {NullNum} \cup (0..MaxCustomTimeout) :
       LET r == IF endpoint = "/cart"
                THEN ApiGetSessionId(medium, mediumMode, now, generated)
                ELSE SessionResult(medium, NoArg, generated) IN
       /\ medium' = r.medium
       /\ generated' = r.generated
       /\ api' = [n |-> api.n + 1, phase |-> "fetching",
                  url |-> buildUrl(endpoint, r.value),
                  timeout |-> createTimeoutController(customTimeout),
                  started |-> now, timer |-> "set",
                  outcome |-> NoOutcomeYet, outcomes |-> 0, cause |-> "-"]
  /\ UNCHANGED now
  /\ ApiFrame

\* fetch resolves: a non-2xx response is thrown as an ApiError, a response
\* without a JSON content type gives null, another one is read.
FetchResponds ==
  /\ api.phase = "fetching"
  /\ \E status \in HttpStatuses, contentType \in ContentTypes :
       IF ~Ok(status)
       THEN Settle("rejected", ApiError(status, "statusText", api.url), "response")
       ELSE IF contentType # "application/json"
       THEN Settle("resolved", Parsed("null", api.url), "response")
       ELSE api' = [api EXCEPT !.phase = "reading"]
  /\ UNCHANGED <<medium, generated, now>>
  /\ ApiFrame

\* fetch rejects: no connection, DNS, CORS
FetchFails ==
  /\ api.phase = "fetching"
  /\ Settle("rejected", catch("TypeError", "Failed to fetch", api.url), "network")
  /\ UNCHANGED <<medium, generated, now>>
  /\ ApiFrame

\* response.json() resolves
BodyParsed ==
  /\ api.phase = "reading"
  /\ Settle("resolved", Parsed("data", api.url), "response")
  /\ UNCHANGED <<medium, generated, now>>
  /\ ApiFrame

\* response.json() rejects: the body is not JSON, or the connection broke
BodyFails ==
  /\ api.phase = "reading"
  /\ \E name \in ErrorNames \ {"AbortError"} :
       Settle("rejected", catch(name, "body", api.url), "body")
  /\ UNCHANGED <<medium, generated, now>>
  /\ ApiFrame

\* setTimeout(() => controller.abort(), timeout) runs: a pending fetch or
\* body read rejects with an AbortError
TimerFires ==
  /\ api.timer = "set"
  /\ now >= Deadline
  /\ IF CallPending
     THEN api' = [api EXCEPT !.phase = "rejected", !.timer = "fired",
                             !.outcome = catch("AbortError", "aborted", api.url),
                             !.outcomes = @ + 1, !.cause = "timeout"]
     ELSE api' = [api EXCEPT !.timer = "fired"]
  /\ UNCHANGED <<medium, generated, now>>
  /\ ApiFrame

\* Time passes, a millisecond at a time just after the call was made or
\* all at once, up to the instant the timer is due.
ApiClockAdvances ==
  /\ api.timer = "set"
  /\ \E t \in {now + 1, Deadline} :
       /\ t > now
       /\ t <= Deadline
       /\ t = now + 1 => now - api.started < MaxCustomTimeout
       /\ now' = t
  /\ UNCHANGED <<medium, generated, api>>
  /\ ApiFrame

RequestNext ==
  \/ ApiRequest \/ FetchResponds \/ FetchFails \/ BodyParsed \/ BodyFails
  \/ TimerFires \/ ApiClockAdvances

(***************************************************************************)
(* Properties of the session scope and of the use cases.                   *)
(***************************************************************************)
\* The token in the cache, if it has not expired
StoredTokens ==
  IF Stored(medium, sessionKey) /\ ~(EntryOf(medium, sessionKey).expires < now)
  THEN {Parse(EntryOf(medium, sessionKey).value)} ELSE {}

\* C15: the client has one session token, and a cart request carries it:
\* the session id of the query string and, for POST /cart/items, of the
\* body are the token stored in the cache when the request is sent, also
\* when the component sending it was created before the token was
\* regenerated.
C15_RequestsScopedByStoredToken ==
  /\ Cardinality(HeldSessions \cup StoredTokens) <= 1
  /\ last.kind = "sent" =>
       /\ last.req.query = last.stored
       /\ last.req.method = "POST" => last.req.body = last.stored

\* A precondition of the call is violated: no session token, no product or
\* item id where one is needed, a quantity below 1 or above 100.
PreconditionViolated(req, sessionId) ==
  \/ sessionId = "" \/ sessionId = Null
  \/ req.op \in {"AddItem", "RemoveItem", "UpdateQuantity"} /\ req.id = ""
  \/ /\ req.op \in {"AddItem", "UpdateQuantity"}
     /\ req.quantity.kind = "number"
     /\ req.quantity.twice < 2 \/ req.quantity.twice > 200

\* C16: a call whose session token is missing or empty, whose product or
\* item id is missing or whose quantity is below 1 or above 100 is rejected
\* with a validation error: no request is sent for it, the cache and the
\* calls in flight stay as they are and no event is published.
C16_InvalidCallsRejected ==
  /\ [](/\ (last.kind = "sent" /\ last.req.op \in UseCases) =>
              ~PreconditionViolated(last.req, last.sessionId)
        /\ last.kind = "rejected" =>
              /\ last.outcome = "validation"
              /\ last.error # NoError
              /\ last.effects = <<>>)
  /\ [][(last'.kind = "rejected" /\ last' # last) =>
          /\ medium' = medium
          /\ inflight' = inflight
          /\ generated' = generated]_vars

\* UpdateQuantity was rejected for a quantity of 101 while the cache held a
\* session token.
C16_Witness ==
  /\ last.kind = "rejected"
  /\ last.req.op = "UpdateQuantity"
  /\ last.req.quantity = Num(101)
  /\ last.sessionId \in StoredTokens

\* C17: a quantity forwarded to the remote service by AddItem or
\* UpdateQuantity is a whole number from 1 to 100.
C17_ForwardedQuantityIsInteger ==
  (last.kind = "sent" /\ last.req.op \in {"AddItem", "UpdateQuantity"}) =>
    /\ last.req.quantity.kind = "number"
    /\ last.req.quantity.twice % 2 = 0
    /\ last.req.quantity.twice >= 2
    /\ last.req.quantity.twice <= 200

DomainEvent ==
  [op \in Mutations |->
     CASE op = "AddItem" -> "cart:item-added"
       [] op = "RemoveItem" -> "cart:item-removed"
       [] op = "UpdateQuantity" -> "cart:quantity-changed"
       [] OTHER -> "cart:cleared"]

SucceededLast(ops) ==
  last.kind = "done" /\ last.outcome = "ok" /\ last.req.op \in ops

CountEvents(effects) ==
  {i \in 1..Len(effects) :
     effects[i].kind = "event" /\ effects[i].name = "cart:count-updated"}

\* C19, as stated: every successful operation, GetCart included, publishes
\* cart:count-updated with the resulting item count.
C19_EverySuccessPublishesCount ==
  SucceededLast(UseCases) =>
    \E i \in CountEvents(last.effects) :
      last.effects[i].count = last.response.item_count

\* C19, amended: every successful mutation publishes one cart:count-updated
\* with the resulting item count; a successful GetCart publishes no event.
C19_MutationsPublishCount ==
  /\ SucceededLast(Mutations) =>
       /\ Cardinality(CountEvents(last.effects)) = 1
       /\ \A i \in CountEvents(last.effects) :
            last.effects[i].count = last.response.item_count
  /\ SucceededLast({"GetCart"}) =>
       \A i \in 1..Len(last.effects) : last.effects[i].kind # "event"

\* GetCart succeeded with a cart of two items, cached it and published
\* nothing.
C19_Witness ==
  /\ SucceededLast({"GetCart"})
  /\ last.response.item_count = 2
  /\ Len(last.effects) = 1

\* The remote GET /cart of the last call failed.
GetCartFailedLast ==
  last.kind = "done" /\ last.req.op = "GetCart" /\ last.status # NullNum

C20_Expired ==
  ~(GetCartFailedLast /\ last.entry # NoEntry /\ last.entry.expires < last.at)

(***************************************************************************)
(* Properties of ApiClient.request.                                        *)
(***************************************************************************)
\* C24: a call of request() has no outcome while it is pending and one
\* outcome once it has ended: the parsed response (or null), or an ApiError
\* with a status, a message and the URL of the request.  A call is never
\* pending after its timeout has elapsed and the timer has run: it was
\* aborted and rejected with status 408.  A failure of fetch gives status
\* 0, a non-2xx response gives the status of the response.
C24_RequestOutcomes ==
  /\ CallPending => api.outcomes = 0 /\ api.outcome = NoOutcomeYet
  /\ api.phase \in {"resolved", "rejected"} => api.outcomes = 1
  /\ api.phase = "resolved" =>
       /\ api.outcome.kind \in {"data", "null"}
       /\ api.cause = "response"
  /\ api.phase = "rejected" =>
       /\ api.outcome.kind = "ApiError"
       /\ api.outcome.url = api.url
       /\ api.outcome.message # ""
       /\ api.cause = "timeout" <=> api.outcome.status = 408
       /\ api.cause = "network" => api.outcome.status = 0
       /\ api.cause = "response" =>
            api.outcome.status \in HttpStatuses /\ ~Ok(api.outcome.status)
       /\ api.outcome.status = 0 => api.cause \in {"network", "body"}
  /\ CallPending => now <= Deadline /\ api.timer = "set"
  /\ api.cause = "timeout" => now = Deadline

\* A call without options.timeout was still pending 10 s after it was made
\* and was rejected with status 408.
C24_Witness ==
  /\ api.phase = "rejected"
  /\ api.cause = "timeout"
  /\ api.outcome = ApiError(408, "Request timeout", api.url)
  /\ api.timeout = 10000
  /\ now = api.started + 10000

(***************************************************************************)
(* Properties of repeated subscription.                                    *)
(***************************************************************************)
Occurrences(seq, x) == Cardinality({i \in 1..Len(seq) : seq[i] = x})

\* C29: a handler subscribed again to an event it is subscribed to is
\* registered once: listenerCount grows by one for a new handler and not at
\* all for a registered one, the listeners a publish would call hold each
\* handler once, and one call of a returned function or of unsubscribe(e, h)
\* removes the handler, after which getEventNames lists e only if another
\* handler is left.
C29_SubscribeTwiceRegistersOnce ==
  /\ \A e \in EventNames, h \in Handlers :
       /\ Occurrences(ListenersCopy(events[e]), h) <= 1
       /\ ~Contains(unsubscribe(events, e, h)[e], h)
       /\ (Range(events[e]) \subseteq {h}) =>
            e \notin getEventNames(unsubscribe(events, e, h))
  /\ (busCall.op = "subscribe" /\ ~busCall.threw) =>
       /\ Occurrences(busCall.after[busCall.event], busCall.callback) = 1
       /\ listenerCount(busCall.after, busCall.event) =
            listenerCount(busCall.before, busCall.event)
            + (IF Contains(busCall.before[busCall.event], busCall.callback)
               THEN 0 ELSE 1)
  /\ busCall.op = "off" =>
       /\ ~Contains(busCall.after[busCall.event], busCall.callback)
       /\ (Range(busCall.before[busCall.event]) \subseteq {busCall.callback}) =>
            busCall.event \notin getEventNames(busCall.after)

\* A handler was subscribed again to an event that has it and another
\* handler.
C29_Witness ==
  /\ busCall.op = "subscribe"
  /\ ~busCall.threw
  /\ Contains(busCall.before[busCall.event], busCall.callback)
  /\ listenerCount(busCall.before, busCall.event) = 2
  /\ listenerCount(busCall.after, busCall.event) = 2

\* The only handler of an event, subscribed twice, was removed by one call
\* of the returned function.
C29_Removed ==
  ~(/\ busCall.op = "off"
    /\ ~busCall.again
    /\ busCall.before[busCall.event] = <<busCall.callback>>
    /\ busCall.event \notin getEventNames(events))

(***************************************************************************)
(* Properties of entries stored with a ttl.                                *)
(***************************************************************************)
\* C26: a successful set(k, v, ttl) with any ttl given, 0 included, stores
\* the entry with expires = now + ttl; only a set without a ttl stores an
\* entry without an expiry.
C26_AnyTtlGivenExpires ==
  (stCall.op = "set" /\ stCall.flag) =>
    /\ Stored(medium, stCall.key)
    /\ EntryOf(medium, stCall.key).expires =
         IF stCall.ttl = NullNum THEN NullNum ELSE now + stCall.ttl

(***************************************************************************)
(* Properties of the cart page.                                            *)
(***************************************************************************)
MutatingMethods == {"updateQuantity", "removeItem", "clearCart"}

\* A method of the page has just continued after its await
Continued(by) == last.kind = "done" /\ page.by = by

C22_ClearCartIdempotent ==
  (Continued("clearCart") /\ last.status = NullNum) =>
    /\ last.outcome = "ok"
    /\ last.result = Result("Cart", toJSON(fromAPI(CartJson(last.req.query, 0))))
    /\ page.cart = last.result
    /\ CartEntry(medium) # NoEntry
    /\ Parse(CartEntry(medium).value) = last.result.data
    /\ last.effects # <<>>
    /\ last.effects[Len(last.effects)] = Effect("event", "cart:count-updated", 0)
    /\ page.count = 0

\* The second of two ClearCarts: the cache held the empty cart and 0 was
\* the count before it, and they are what it leaves
C22_Witness ==
  /\ Continued("clearCart")
  /\ last.status = NullNum
  /\ last.entry # NoEntry
  /\ Parse(last.entry.value).items = <<>>
  /\ last.entry = CartEntry(medium)
  /\ page.count = 0

\* C23: after a use case has succeeded, the cache entry of the cart is the
\* cart it returned, whatever the entry was before.
C23_SnapshotIsTheCartReturned ==
  (last.kind = "done" /\ last.outcome = "ok") =>
    /\ CartEntry(medium) # NoEntry
    /\ Parse(CartEntry(medium).value) = last.result.data

C23_Witness ==
  /\ last.kind = "done"
  /\ last.outcome = "ok"
  /\ last.entry # NoEntry
  /\ Parse(last.entry.value) # last.result.data
  /\ Parse(CartEntry(medium).value) = last.result.data

\* The requests of mutating methods of the controller that await their
\* response
MutationsInFlight ==
  {i \in 1..Len(inflight) : inflight[i].by \in MutatingMethods}

\* C25: at no time do two mutating requests of the CartController
\* (updateQuantity, removeItem, clearCart) await their response.
C25_OneMutationInFlight == Cardinality(MutationsInFlight) <= 1

\* The cart the remote service holds for the session, as the page would
\* hold it
ServerCart == toJSON(fromAPI(CartJson(StoredToken, server)))

\* C27: when no request awaits its response any more and none has failed,
\* the cache entry of the cart, this.cart of the controller and the count
\* published last are those of the cart the remote service holds, in
\* whatever order the requests were handled and the responses arrived.
C27_QuiescentPageMatchesServer ==
  (inflight = <<>> /\ last.kind = "done" /\ ~page.failures) =>
    /\ CartEntry(medium) # NoEntry
    /\ Parse(CartEntry(medium).value) = ServerCart
    /\ page.cart = Result("Cart", ServerCart)
    /\ page.count # NullNum => page.count = server

\* C28: a cart that GetCartUseCase.execute(sessionId) returns, from the
\* response or from the cache after a failure, is the cart of that session:
\* its session id is the argument.
C28_ReturnedCartIsOfTheSession ==
  (last.kind = "done" /\ last.req.op = "GetCart"
   /\ last.outcome \in {"ok", "fallback"}) =>
    last.result.data.session_id = last.req.sessionId

\* C30: a call of publishCartCount publishes cart:count-updated once: with
\* the sum of the quantities of the items of the response when GET /cart
\* succeeded, with 0 when it failed.
C30_PublishCartCountPublishesOnce ==
  Continued("publishCartCount") =>
    /\ Len(last.effects) = 1
    /\ last.effects[1].name = "cart:count-updated"
    /\ last.effects[1].count =
         IF last.status # NullNum \/ last.response.items = <<>> THEN 0
         ELSE last.response.items[1].quantity
    /\ page.count = last.effects[1].count

\* The request failed while the remote cart holds items
C30_Witness ==
  /\ Continued("publishCartCount")
  /\ last.status # NullNum
  /\ server > 0
  /\ last.effects = <<Effect("event", "cart:count-updated", 0)>>

C30_Counted ==
  /\ Continued("publishCartCount")
  /\ last.status = NullNum
  /\ last.effects = <<Effect("event", "cart:count-updated", MaxServerQty)>>

(***************************************************************************)
(* Specifications, one per component.                                      *)
(***************************************************************************)
Init == CartInit /\ StorageIdle /\ BusInit /\ SessionInit /\ SyncInit /\ PageInit

\* The Cart entity under its own operations.
SpecCart == Init /\ [][CartNext]_vars

\* The Cart entity, with callers that also change items they were handed.
SpecCartItem == Init /\ [][CartItemNext]_vars

\* The Storage singleton, the clock and the medium in any condition.
InitAnyMedium ==
  CartInit /\ StorageInit /\ BusInit /\ SessionInit /\ SyncInit /\ PageInit

SpecStorage == InitAnyMedium /\ [][StorageNext]_vars

\* The event bus, its callers and its callbacks.
SpecBus == Init /\ [][BusNext]_vars

\* The functions returned by subscribe, with direct unsubscribe and clear.
SpecSubscriptions == Init /\ [][SubscriptionNext]_vars

\* The event bus with a once() registration.
SpecOnce == Init /\ [][OnceNext]_vars

\* The session token, asked for by CartStorage, ApiClient and CartHandler.
SpecSession == Init /\ [][SessionNext]_vars

\* The use cases, the components holding a session id, the remote service
\* and the clock.
SpecSync == Init /\ [][SyncNext]_vars

\* The cart handler and the cart controller of one page.
SpecHandler == Init /\ [][HandlerNext]_vars

\* Calls of ApiClient.request.
SpecRequest == Init /\ [][RequestNext]_vars

\* A page opens on a session whose remote cart holds what earlier pages put
\* there; it lets so many user actions pend at once.
PageOpens(limit) ==
  /\ CartInit /\ StorageIdle /\ BusInit /\ SessionInit /\ SyncInit /\ ApiInit
  /\ server \in 0..MaxServerQty
  /\ page = [cart |-> NoResult, count |-> NullNum, listening |-> FALSE,
             by |-> "-", failures |-> FALSE, limit |-> limit]

\* GetCartUseCase over session expiries.
SpecReturns == Init /\ [][ReturnsNext]_vars

\* The cart page, one user action at a time.
SpecController == PageOpens(MaxInflight) /\ [][ControllerNext]_vars

\* A page with the cart handler, one user action at a time.
SpecCartHandler == PageOpens(MaxInflight) /\ [][CartHandlerNext]_vars

\* The cart page when user actions overlap.
SpecOverlap == PageOpens(MaxOverlap) /\ [][OverlapNext]_vars

\* The use cases called with any arguments.
SpecValidation == Init /\ [][ValidationNext]_vars

Next == CartItemNext \/ StorageNext \/ BusNext

Spec == Init /\ [][Next]_vars

====
